---------------------------- MODULE Spec2Model ----------------------------
(***************************************************************************)
(* Model of the storage-and-retrieval core of the Wichita airport flight   *)
(* tracker: the rule-based delay predictor (delay_predictor.py), the HDF5  *)
(* hierarchical store (hdf5_storage.py) and the backup manager             *)
(* (backup_manager.py).                                                    *)
(*                                                                         *)
(* Conventions                                                             *)
(*  - Python strings whose characters the code inspects are sequences of   *)
(*    one-character strings; None stands for a missing dict key, Some(x) for a value.  *)
(*  - Weather numbers are scaled to integers: precipitation in hundredths  *)
(*    of an inch, visibility in tenths of a mile, wind in mph.             *)
(*  - A time string is a record of the features the code tests on it       *)
(*    (see TimeStr below).                                                 *)
(***************************************************************************)
EXTENDS Integers, Sequences, FiniteSets, TLC

VARIABLES
    \* ---- delay predictor -------------------------------------------------
    flight,            \* the flight dict handed to predict()
    weather,           \* the weather dict handed to predict(), or None
    prediction,        \* the dict returned by the last predict(), or None
    prediction_count,  \* DelayPredictor.prediction_count
    \* ---- hierarchical store ----------------------------------------------
    now,               \* the wall clock, in ticks (TicksPerDay ticks a day)
    h5,                \* the HDF5 file: date groups, flight groups, id counter
    write_queue,       \* FlightHDF5Storage.write_queue (FIFO of tasks)
    unfinished_tasks,  \* Queue.unfinished_tasks (put() adds, task_done() subtracts)
    th,                \* per thread: position inside the running operation and its locals
    calls,             \* the store calls that have returned, in order, with their results
    last_call,         \* the store call that returned last, or None
    \* ---- backup manager --------------------------------------------------
    bnow,              \* the wall clock of the backup scheduler, in hours since its start
    files,             \* the artifacts in backup_dir
    swept,             \* the sweep scheduled for the current hour has run
    nbackups,          \* create_backup calls whose artifacts are followed
    sidecars,          \* the .json / .json.gz metadata files in backup_dir
    last_sweep,        \* the sweep that ran in the current hour, or None
    faults_left,       \* sweeps that can still meet an artifact they cannot process
    \* ---- archive export ---------------------------------------------------
    today,             \* the date of the archive clock, in days
    flights_table,     \* the rows of the flights table of flight_history.db
    archive_dir,       \* the archive files: cutoff date and archived rows
    last_export,       \* the export_old_data call that returned last, or None
    \* ---- caches -----------------------------------------------------------
    cnow,              \* the wall clock of the web process, in seconds
    tracker_data,      \* tracker.flights_data, the list a refresh would serialize
    app,               \* per process: its RedisCache, the Redis server behind it,
                       \* api._cache, the aggregator's cached_data / last_fetch
    ret,               \* per process: what the last call returned, or None
    \* ---- calls under an expected failure ----------------------------------
    outcome            \* the last such call: its component, operation, failure
                       \* and how it ended (returned a value or raised), or None

scorerVars == <<flight, weather, prediction, prediction_count>>
storeVars == <<now, h5, write_queue, unfinished_tasks, th, calls, last_call>>

backupVars == <<bnow, files, swept, nbackups, sidecars, last_sweep, faults_left>>

archiveVars == <<today, flights_table, archive_dir, last_export>>
cacheVars == <<cnow, tracker_data, app, ret>>
callVars == <<outcome>>

vars == <<scorerVars, storeVars, backupVars, archiveVars, cacheVars, callVars>>

\* An optional value: None for a missing dict key (or Python None), Some(x) otherwise
None == <<>>
Some(x) == <<x>>

Min(a, b) == IF a <= b THEN a ELSE b
Max(a, b) == IF a >= b THEN a ELSE b

(***************************************************************************)
(* Strings as character sequences                                          *)
(***************************************************************************)
UpperAlpha == <<"A","B","C","D","E","F","G","H","I","J","K","L","M",
                "N","O","P","Q","R","S","T","U","V","W","X","Y","Z">>
LowerAlpha == <<"a","b","c","d","e","f","g","h","i","j","k","l","m",
                "n","o","p","q","r","s","t","u","v","w","x","y","z">>

\* str.lower() / str.upper() on one character
LowerChar(c) ==
    IF \E i \in 1..26 : UpperAlpha[i] = c
    THEN LowerAlpha[CHOOSE i \in 1..26 : UpperAlpha[i] = c]
    ELSE c
UpperChar(c) ==
    IF \E i \in 1..26 : LowerAlpha[i] = c
    THEN UpperAlpha[CHOOSE i \in 1..26 : LowerAlpha[i] = c]
    ELSE c
Lower(s) == [i \in 1..Len(s) |-> LowerChar(s[i])]
Upper(s) == [i \in 1..Len(s) |-> UpperChar(s[i])]

\* Python's `sub in s`
Contains(s, sub) ==
    \E i \in 0..(Len(s) - Len(sub)) :
        \A j \in 1..Len(sub) : s[i + j] = sub[j]

\* Python's s[:n]
Prefix(s, n) == SubSeq(s, 1, Min(n, Len(s)))

(***************************************************************************)
(* Time strings.  A scheduled-time value is described by what the code     *)
(* looks at:                                                               *)
(*   kind = "absent"  key missing from the dict                            *)
(*   kind = "none"    key present with value None                          *)
(*   kind = "empty"   ''                                                   *)
(*   kind = "na"      'N/A'                                                *)
(*   kind = "iso"     'YYYY-MM-DDTHH:MM:SS' naming day `day`, hour `hour`  *)
(*   kind = "bare"    'HH:MM' time of day, hour `hour`                     *)
(*   kind = "badbare" has ':' but int()/replace() rejects it ('5:38 PM')   *)
(*   kind = "junkT"   not a timestamp but has 'T' or '-' ('TBD', '--')     *)
(*   kind = "junk"    not a timestamp, no 'T', '-', ':' ('unknown')        *)
(***************************************************************************)
TS(kind, day, hour) == [kind |-> kind, day |-> day, hour |-> hour]
TAbsent == TS("absent", 0, 0)
TNone == TS("none", 0, 0)
TEmpty == TS("empty", 0, 0)
TNA == TS("na", 0, 0)
TJunkT == TS("junkT", 0, 0)
TJunk == TS("junk", 0, 0)
TBadBare == TS("badbare", 0, 0)
TIso(day, hour) == TS("iso", day, hour)
TBare(hour) == TS("bare", 0, hour)

\* bool(s) of the value
Truthy(t) == t.kind \notin {"absent", "none", "empty"}
\* 'T' in s
HasT(t) == t.kind \in {"iso", "junkT"}
\* 'T' in s or '-' in s
HasTOrDash(t) == t.kind \in {"iso", "junkT"}
\* ':' in s  (reached only when HasTOrDash is false)
HasColon(t) == t.kind \in {"bare", "badbare"}
\* datetime.fromisoformat(s.replace('Z', '+00:00')) succeeds
IsoParses(t) == t.kind = "iso"

(***************************************************************************)
(* Delay predictor                                                         *)
(***************************************************************************)
S_thunderstorm == <<"t","h","u","n","d","e","r","s","t","o","r","m">>
S_heavy_snow == <<"h","e","a","v","y"," ","s","n","o","w">>
S_blizzard == <<"b","l","i","z","z","a","r","d">>
S_rain == <<"r","a","i","n">>
S_snow == <<"s","n","o","w">>
S_fog == <<"f","o","g">>

\* AIRLINE_DELAY_RATES
AirlineCodes == { <<"A","A">>, <<"D","L">>, <<"U","A">>, <<"W","N">>, <<"A","S">>,
                  <<"B","6">>, <<"N","K">>, <<"F","9">>, <<"G","4">> }
AIRLINE_DELAY_RATES(code) ==
    CASE code = <<"A","A">> -> 18
      [] code = <<"D","L">> -> 12
      [] code = <<"U","A">> -> 16
      [] code = <<"W","N">> -> 22
      [] code = <<"A","S">> -> 11
      [] code = <<"B","6">> -> 15
      [] code = <<"N","K">> -> 28
      [] code = <<"F","9">> -> 25
      [] code = <<"G","4">> -> 30

\* RUSH_HOURS
RUSH_HOURS == << <<6, 9>>, <<16, 19>> >>

MajorHubs == {"ATL", "ORD", "DFW", "DEN", "LAX", "JFK", "EWR"}

\* A (score, factors) pair as returned by every _evaluate_* helper
SF(score, factors) == [score |-> score, factors |-> factors]

\* dict.get(key, default) on a record whose missing keys hold None
Get(d, key, default) == IF d[key] = None THEN default ELSE d[key][1]

_evaluate_weather(w) ==
    LET precip == Get(w, "Precipitation_inches", 0)
        wind == Get(w, "Wind_Speed_mph", 0)
        visibility == Get(w, "Visibility_miles", 100)
        condition == Lower(Get(w, "Condition", <<>>))
        p == IF precip > 50 THEN SF(25, <<"Heavy precipitation">>)
             ELSE IF precip > 10 THEN SF(15, <<"Light precipitation">>)
             ELSE SF(0, <<>>)
        wi == IF wind > 35 THEN SF(20, <<"High winds">>)
              ELSE IF wind > 25 THEN SF(10, <<"Moderate winds">>)
              ELSE SF(0, <<>>)
        v == IF visibility < 10 THEN SF(25, <<"Very low visibility">>)
             ELSE IF visibility < 30 THEN SF(15, <<"Low visibility">>)
             ELSE SF(0, <<>>)
        c == IF \E s \in {S_thunderstorm, S_heavy_snow, S_blizzard} : Contains(condition, s)
             THEN SF(30, <<"Severe weather">>)
             ELSE IF \E s \in {S_rain, S_snow, S_fog} : Contains(condition, s)
             THEN SF(10, <<"Adverse weather">>)
             ELSE SF(0, <<>>)
    IN SF(p.score + wi.score + v.score + c.score,
          p.factors \o wi.factors \o v.factors \o c.factors)

_evaluate_time(f) ==
    LET scheduled == f["Scheduled_Time"]
    IN IF Truthy(scheduled) /\ scheduled.kind # "na" /\ HasT(scheduled)
       THEN IF ~IsoParses(scheduled)
            THEN SF(0, <<>>)      \* fromisoformat raised: caught, nothing added yet
            ELSE
              LET hour == scheduled.hour
                  rush == IF RUSH_HOURS[1][1] <= hour /\ hour < RUSH_HOURS[1][2]
                          THEN SF(15, <<"Morning rush hour (6-9 AM)">>)
                          ELSE IF RUSH_HOURS[2][1] <= hour /\ hour < RUSH_HOURS[2][2]
                          THEN SF(15, <<"Evening rush hour (4-7 PM)">>)
                          ELSE SF(0, <<>>)
                  off == IF (0 <= hour /\ hour < 6) \/ (22 <= hour /\ hour < 24)
                         THEN SF(-5, <<"Off-peak hours (reliable)">>)
                         ELSE SF(0, <<>>)
              IN SF(rush.score + off.score, rush.factors \o off.factors)
       ELSE SF(0, <<>>)

\* int((delay_rate / 30) * 20): the float product truncates to the same integer
\* as the exact quotient for every rate of the table
AirlineScore(delay_rate) == (delay_rate * 20) \div 30

_evaluate_airline(f) ==
    LET airline == Get(f, "Airline", <<>>)
        airline_code == IF airline # <<>> THEN Upper(Prefix(airline, 2)) ELSE <<>>
    IN IF airline_code \in AirlineCodes
       THEN LET delay_rate == AIRLINE_DELAY_RATES(airline_code)
            IN SF(AirlineScore(delay_rate),
                  IF delay_rate > 25 THEN <<"higher delay rate">>
                  ELSE IF delay_rate < 15 THEN <<"good on-time performance">>
                  ELSE <<>>)
       ELSE SF(0, <<>>)

_evaluate_flight_type_departure(f) == SF(0, <<>>)

_evaluate_flight_type(f) ==
    IF Get(f, "Type", "") = "Arrival" /\ Get(f, "Origin", "") \in MajorHubs
    THEN SF(10, <<"Arriving from major hub">>)
    ELSE SF(0, <<>>)

_evaluate_cascading_delays(f) ==
    LET inbound_delay == Get(f, "inbound_delay_minutes", 0)
    IN IF inbound_delay > 60 THEN SF(15, <<"Inbound flight delayed">>)
       ELSE IF inbound_delay > 30 THEN SF(10, <<"Inbound flight delayed">>)
       ELSE SF(0, <<>>)

\* `if weather:` -- None and the empty dict are both falsy
WeatherGiven(w) ==
    /\ w # None
    /\ \E k \in DOMAIN w[1] : w[1][k] # None

_calculate_confidence_no_route(f, w) ==
    LET c1 == IF ~WeatherGiven(w) THEN 20 ELSE 0
        c2 == IF ~Truthy(f["Scheduled_Time"]) \/ f["Scheduled_Time"].kind = "na"
              THEN 15 ELSE 0
        c3 == IF Get(f, "Airline", <<>>) = <<>> THEN 10 ELSE 0
    IN Max(30, 100 - c1 - c2 - c3)

_calculate_confidence(f, w) ==
    LET c1 == IF ~WeatherGiven(w) THEN 20 ELSE 0
        c2 == IF ~Truthy(f["Scheduled_Time"]) \/ f["Scheduled_Time"].kind = "na"
              THEN 15 ELSE 0
        c3 == IF Get(f, "Airline", <<>>) = <<>> THEN 10 ELSE 0
        c4 == IF Get(f, "Origin", "") = "" /\ Get(f, "Destination", "") = ""
              THEN 10 ELSE 0
    IN Max(30, 100 - c1 - c2 - c3 - c4)

\* The total of the five contributions, before the cap of line 106
RawScore(f, w) ==
    (IF WeatherGiven(w) THEN _evaluate_weather(w[1]).score ELSE 0)
    + _evaluate_time(f).score
    + _evaluate_airline(f).score
    + _evaluate_flight_type(f).score
    + _evaluate_cascading_delays(f).score

ReportedScore(raw) == Min(100, raw)

predict(f, w) ==
    LET risk_score == RawScore(f, w)
        factors == (IF WeatherGiven(w) THEN _evaluate_weather(w[1]).factors ELSE <<>>)
                   \o _evaluate_time(f).factors
                   \o _evaluate_airline(f).factors
                   \o _evaluate_flight_type(f).factors
                   \o _evaluate_cascading_delays(f).factors
        risk_level == IF risk_score >= 60 THEN "High"
                      ELSE IF risk_score >= 35 THEN "Medium"
                      ELSE "Low"
        recommendation ==
            IF risk_score >= 60 THEN "Consider alternate flights or allow extra time"
            ELSE IF risk_score >= 35 THEN "Monitor flight status closely"
            ELSE "Flight expected on time"
    IN [risk_level |-> risk_level,
        risk_score |-> ReportedScore(risk_score),
        confidence |-> _calculate_confidence(f, w),
        factors |-> factors,
        recommendation |-> recommendation]

\* ---- inputs ---------------------------------------------------------------
MaxPredictions == 2

Str_Thunderstorm == <<"T","h","u","n","d","e","r","s","t","o","r","m">>
Str_Light_Rain == <<"L","i","g","h","t"," ","R","a","i","n">>
Str_Clear == <<"C","l","e","a","r">>

WeatherDict(p, w, v, c) ==
    [Precipitation_inches |-> p, Wind_Speed_mph |-> w,
     Visibility_miles |-> v, Condition |-> c]

WeatherInputs ==
    {None, Some(WeatherDict(None, None, None, None))}
    \cup { Some(WeatherDict(Some(p), Some(w), Some(v), Some(c))) :
             p \in {0, 30, 60}, w \in {0, 30, 40}, v \in {5, 20, 100},
             c \in {Str_Clear, Str_Light_Rain, Str_Thunderstorm} }

FlightInputs ==
    [Scheduled_Time : {TAbsent, TNA, TJunkT, TBare(7),
                       TIso(0, 3), TIso(0, 7), TIso(0, 12), TIso(0, 17)},
     Airline : {None, Some(<<"N","K">>), Some(<<"d","l","1","2">>), Some(<<"Z","Z">>)},
     Type : {Some("Arrival"), Some("Departure")},
     Origin : {None, Some("ORD")},
     Destination : {None, Some("ICT")},
     inbound_delay_minutes : {None, Some(45), Some(90)}]

InitScorer ==
    /\ flight \in FlightInputs
    /\ weather \in WeatherInputs
    /\ prediction = None
    /\ prediction_count = 0

\* a call whose result depends on the calls made before it
PredictDrifting ==
    /\ prediction_count < MaxPredictions
    /\ prediction' = Some([predict(flight, weather) EXCEPT
                             !.confidence = Max(30, @ - prediction_count)])
    /\ prediction_count' = prediction_count + 1
    /\ UNCHANGED <<flight, weather, storeVars, backupVars, archiveVars, cacheVars, callVars>>

\* One call predict(flight, weather)
Predict ==
    /\ prediction_count < MaxPredictions
    /\ prediction' = Some(predict(flight, weather))
    /\ prediction_count' = prediction_count + 1
    /\ UNCHANGED <<flight, weather, storeVars, backupVars, archiveVars, cacheVars, callVars>>


\* the inputs of a call another caller makes in between
OtherFlight ==
    [Scheduled_Time |-> TIso(0, 7), Airline |-> Some(<<"N","K">>),
     Type |-> Some("Arrival"), Origin |-> Some("ORD"), Destination |-> Some("ICT"),
     inbound_delay_minutes |-> Some(90)]
OtherWeather == Some(WeatherDict(Some(60), Some(40), Some(5), Some(Str_Thunderstorm)))

\* One call predict(f, w) whose result goes to another caller
PredictOther ==
    /\ prediction_count < MaxPredictions
    /\ predict(OtherFlight, OtherWeather).risk_score <= 100
    /\ prediction_count' = prediction_count + 1
    /\ UNCHANGED <<flight, weather, prediction, storeVars, backupVars, archiveVars, cacheVars, callVars>>


\* ---- inputs that single out one contribution --------------------------------
\* every hour of the day
Hours == 0..23

\* the nine carriers of AIRLINE_DELAY_RATES (as two-letter codes), a carrier
\* that is not in the table, and no carrier
CarrierInputs == {Some(c) : c \in AirlineCodes} \cup {Some(<<"Z","Z">>), None}

\* every hour as a full ISO timestamp and as a bare time of day, and no time
TimeInputs == {TAbsent} \cup {TIso(0, h) : h \in Hours} \cup {TBare(h) : h \in Hours}

\* departures with no route and no inbound-delay data, scored without weather:
\* the flight type, cascading and weather contributions are 0
PlainFlights ==
    [Scheduled_Time : TimeInputs, Airline : CarrierInputs, Type : {Some("Departure")},
     Origin : {None}, Destination : {None}, inbound_delay_minutes : {None}]

InitPlain ==
    /\ flight \in PlainFlights
    /\ weather = None
    /\ prediction = None
    /\ prediction_count = 0
(***************************************************************************)
(* Hierarchical store (hdf5_storage.py)                                    *)
(*                                                                         *)
(* The file h5 holds                                                       *)
(*   dgs  : id -> [cat, date]       the date groups linked under a category*)
(*   recs : id -> [dg, fn, attrs, hist]  the flight groups linked under a  *)
(*          date group; hist is None while the group has no status_history *)
(*          dataset, else Some(the dataset's entries)                      *)
(*   nextId : the next object id                                           *)
(* A thread holds groups by id; id 0, or an id no longer in the file, is a *)
(* handle on an object that was unlinked by a purge: writes through it     *)
(* succeed and are invisible.                                              *)
(***************************************************************************)
TicksPerDay == 2
Day(t) == t \div TicksPerDay
\* datetime.strptime(date_key, '%Y-%m-%d'): midnight of that day
Midnight(d) == d * TicksPerDay
\* timedelta(days=n)
Days(n) == n * TicksPerDay

Cats == <<"arrivals", "departures">>

\* One status_history entry; EmptyEntry is a slot of the dataset that was
\* allocated (create_dataset / resize) and not yet written: the empty string
Entry(ts, status) == [ts |-> ts, status |-> status]
EmptyEntry == Entry(-1, "")

NoAttrs == [flight_number |-> None, scheduled_time |-> None,
            last_updated |-> None, status |-> None]

NoFD == [flight_number |-> "", scheduled_time |-> TEmpty, status |-> ""]
IdleL == [pc |-> "idle", fd |-> NoFD, ft |-> "", date_key |-> 0, dg |-> 0, fg |-> 0,
          found |-> FALSE, n |-> 0, res |-> FALSE,
          days |-> 0, cutoff |-> 0, removed |-> 0]

EmptyFile == [dgs |-> <<>>, recs |-> <<>>, nextId |-> 1]

\* f with function g restricted to the ids in keep
Restrict(g, keep) == [i \in keep |-> g[i]]
\* function g extended / overwritten at id i
Put(g, i, v) == [j \in DOMAIN g \cup {i} |-> IF j = i THEN v ELSE g[j]]

\* Lines 106-125: the day whose date becomes date_key; ok = FALSE when the
\* parse raises (ValueError out of fromisoformat, int() or replace())
ParseDate(sched, t) ==
    IF sched.kind = "absent"
    THEN [ok |-> TRUE, day |-> Day(t)]           \* default: datetime.now().isoformat()
    ELSE IF sched.kind # "none"                  \* isinstance(scheduled_time, str)
    THEN IF ~Truthy(sched) \/ sched.kind = "na"
         THEN [ok |-> TRUE, day |-> Day(t)]
         ELSE IF HasTOrDash(sched)
         THEN [ok |-> IsoParses(sched), day |-> sched.day]
         ELSE IF HasColon(sched)
         THEN [ok |-> sched.kind = "bare", day |-> Day(t)]
         ELSE [ok |-> TRUE, day |-> Day(t)]
    ELSE [ok |-> TRUE, day |-> Day(t)]           \* scheduled_time is None: datetime.now()

\* `date_key in base_group`
DateGroupIds(f, cat, date) ==
    {i \in DOMAIN f.dgs : f.dgs[i].cat = cat /\ f.dgs[i].date = date}
\* `flight_number in date_group`
FlightGroupIds(f, dg, fn) ==
    {i \in DOMAIN f.recs : f.recs[i].dg = dg /\ f.recs[i].fn = fn}

Fail(f, l) == [f |-> f, l |-> [l EXCEPT !.pc = "w_done", !.res = FALSE]]
Goto(f, l, pc) == [f |-> f, l |-> [l EXCEPT !.pc = pc]]

\* Lines 103-131: open the file, derive date_key, `date_key not in base_group`
W_open(f, l, t) ==
    LET d == ParseDate(l.fd.scheduled_time, t)
    IN IF ~d.ok THEN Fail(f, l)
       ELSE Goto(f, [l EXCEPT !.date_key = d.day,
                              !.found = DateGroupIds(f, l.ft, d.day) # {}],
                 "w_dg_get")

\* Lines 132-135: create the date group (h5py raises ValueError when the name
\* is linked by now) or open it (KeyError when it is gone by now)
W_dg_get(f, l, t) ==
    LET have == DateGroupIds(f, l.ft, l.date_key)
    IN IF l.found
       THEN IF have = {} THEN Fail(f, l)
            ELSE Goto(f, [l EXCEPT !.dg = CHOOSE i \in have : TRUE], "w_fg_check")
       ELSE IF have # {} THEN Fail(f, l)
            ELSE Goto([f EXCEPT !.dgs = Put(f.dgs, f.nextId,
                                            [cat |-> l.ft, date |-> l.date_key]),
                                !.nextId = f.nextId + 1],
                      [l EXCEPT !.dg = f.nextId], "w_fg_check")

\* Line 138: `if flight_number in date_group`
W_fg_check(f, l, t) ==
    Goto(f, [l EXCEPT !.found = FlightGroupIds(f, l.dg, l.fd.flight_number) # {}],
         "w_fg_get")

\* create_group that links a second group under a name already in use
CreateFlightGroupDup(f, l) ==
    Goto([f EXCEPT !.recs = Put(f.recs, f.nextId,
                                [dg |-> l.dg, fn |-> l.fd.flight_number,
                                 attrs |-> NoAttrs, hist |-> None]),
                   !.nextId = f.nextId + 1],
         [l EXCEPT !.fg = f.nextId], "w_attrs")

\* Line 141: date_group.create_group(flight_number); h5py raises ValueError
\* when the name is already linked in the group
CreateFlightGroup(f, l) ==
    IF FlightGroupIds(f, l.dg, l.fd.flight_number) # {}
    THEN Fail(f, l)
    ELSE Goto([f EXCEPT !.recs = Put(f.recs, f.nextId,
                                     [dg |-> l.dg, fn |-> l.fd.flight_number,
                                      attrs |-> NoAttrs, hist |-> None]),
                        !.nextId = f.nextId + 1],
              [l EXCEPT !.fg = f.nextId], "w_attrs")

\* Lines 138-141: open the existing flight group or create it
W_fg_get(f, l, t) ==
    IF l.dg \notin DOMAIN f.dgs
    THEN Goto(f, [l EXCEPT !.fg = 0], "w_attrs")        \* the date group was purged
    ELSE IF l.found
    THEN Goto(f, [l EXCEPT !.fg = CHOOSE i \in FlightGroupIds(f, l.dg, l.fd.flight_number) : TRUE],
              "w_attrs")
    ELSE CreateFlightGroup(f, l)

\* Lines 144-165: the attribute writes.  h5py cannot store a non-string,
\* non-numeric scheduled_time (None): line 145 raises after line 144 wrote.
W_attrs(f, l, t) ==
    IF l.fg \notin DOMAIN f.recs
    THEN Goto(f, l, "w_hist_check")
    ELSE IF l.fd.scheduled_time.kind = "none"
    THEN Fail([f EXCEPT !.recs[l.fg].attrs.flight_number = Some(l.fd.flight_number)], l)
    ELSE Goto([f EXCEPT !.recs[l.fg].attrs =
                   [flight_number |-> Some(l.fd.flight_number),
                    scheduled_time |-> Some(IF l.fd.scheduled_time.kind = "absent"
                                            THEN TIso(Day(t), 0)
                                            ELSE l.fd.scheduled_time),
                    last_updated |-> Some(t),
                    status |-> Some(l.fd.status)]],
              l, "w_hist_check")

\* Line 169: `if dataset_name not in flight_group`
W_hist_check(f, l, t) ==
    IF l.fg \in DOMAIN f.recs /\ f.recs[l.fg].hist # None
    THEN Goto(f, l, "w_hist_shape")
    ELSE Goto(f, l, "w_hist_create")

\* Lines 172-179: create_dataset(shape=(1,)); ValueError when it exists by now
W_hist_create(f, l, t) ==
    IF l.fg \notin DOMAIN f.recs
    THEN Goto(f, l, "w_hist_init")
    ELSE IF f.recs[l.fg].hist # None
    THEN Fail(f, l)
    ELSE Goto([f EXCEPT !.recs[l.fg].hist = Some(<<EmptyEntry>>)], l, "w_hist_init")

Done(f, l) == [f |-> f, l |-> [l EXCEPT !.pc = "w_done", !.res = TRUE]]

\* Lines 180-185: flight_group['status_history'][0] = json.dumps({...})
W_hist_init(f, l, t) ==
    IF l.fg \notin DOMAIN f.recs
    THEN Done(f, l)
    ELSE Done([f EXCEPT !.recs[l.fg].hist =
                   Some([f.recs[l.fg].hist[1] EXCEPT ![1] = Entry(t, l.fd.status)])], l)

\* Lines 188-189: dataset = flight_group[...]; dataset.shape[0]
W_hist_shape(f, l, t) ==
    IF l.fg \notin DOMAIN f.recs
    THEN Goto(f, l, "w_hist_resize")
    ELSE Goto(f, [l EXCEPT !.n = Len(f.recs[l.fg].hist[1])], "w_hist_resize")

\* a resize that leaves the dataset at its length
ResizeNoGrow(h, n) == h

\* dataset.resize((n,)): keeps the first n entries, pads with empty slots
Resize(h, n) == [i \in 1..n |-> IF i <= Len(h) THEN h[i] ELSE EmptyEntry]

\* Line 189: dataset.resize((shape[0] + 1,))
W_hist_resize(f, l, t) ==
    IF l.fg \notin DOMAIN f.recs
    THEN Goto(f, l, "w_hist_write")
    ELSE Goto([f EXCEPT !.recs[l.fg].hist = Some(Resize(f.recs[l.fg].hist[1], l.n + 1))],
              l, "w_hist_write")

\* Lines 190-195: dataset[-1] = json.dumps({...})
AppendAt(h, e) == [h EXCEPT ![Len(h)] = e]

W_hist_write(f, l, t) ==
    IF l.fg \notin DOMAIN f.recs
    THEN Done(f, l)
    ELSE Done([f EXCEPT !.recs[l.fg].hist =
                   Some(AppendAt(f.recs[l.fg].hist[1], Entry(t, l.fd.status)))], l)

WritePcs == {"w_open", "w_dg_get", "w_fg_check", "w_fg_get", "w_attrs", "w_hist_check",
             "w_hist_create", "w_hist_init", "w_hist_shape", "w_hist_resize",
             "w_hist_write"}

\* One step of _write_flight_sync (lines 94-201) by a thread with locals l
WStep(f, l, t) ==
    CASE l.pc = "w_open" -> W_open(f, l, t)
      [] l.pc = "w_dg_get" -> W_dg_get(f, l, t)
      [] l.pc = "w_fg_check" -> W_fg_check(f, l, t)
      [] l.pc = "w_fg_get" -> W_fg_get(f, l, t)
      [] l.pc = "w_attrs" -> W_attrs(f, l, t)
      [] l.pc = "w_hist_check" -> W_hist_check(f, l, t)
      [] l.pc = "w_hist_create" -> W_hist_create(f, l, t)
      [] l.pc = "w_hist_init" -> W_hist_init(f, l, t)
      [] l.pc = "w_hist_shape" -> W_hist_shape(f, l, t)
      [] l.pc = "w_hist_resize" -> W_hist_resize(f, l, t)
      [] l.pc = "w_hist_write" -> W_hist_write(f, l, t)

\* _write_flight_sync run from its first line to its return with no other
\* thread in between
RECURSIVE RunWrite(_, _, _)
RunWrite(f, l, t) ==
    IF l.pc = "w_done" THEN [f |-> f, l |-> l]
    ELSE LET r == WStep(f, l, t) IN RunWrite(r.f, r.l, t)

StartWrite(fd, ft) == [IdleL EXCEPT !.pc = "w_open", !.fd = fd, !.ft = ft]

\* ---- cleanup_old_data (lines 303-335) -------------------------------------
\* Lines 317-323 with whole calendar days compared
DatesToRemoveWholeDays(f, cat, cutoff) ==
    {i \in DOMAIN f.dgs : f.dgs[i].cat = cat /\ f.dgs[i].date < Day(cutoff)}

\* Lines 317-323: the date groups of one category older than the cutoff
DatesToRemove(f, cat, cutoff) ==
    {i \in DOMAIN f.dgs : f.dgs[i].cat = cat /\ Midnight(f.dgs[i].date) < cutoff}

\* Lines 326-328: del base_group[date_key] for each of them
RemoveDateGroups(f, gone) ==
    [f EXCEPT !.dgs = Restrict(f.dgs, DOMAIN f.dgs \ gone),
              !.recs = Restrict(f.recs, {i \in DOMAIN f.recs : f.recs[i].dg \notin gone})]

\* Lines 306-308
P_open(f, l, t) == Goto(f, [l EXCEPT !.cutoff = t - Days(l.days), !.removed = 0], "p_cat1")

\* Lines 310-328 for one category
P_cat(f, l, cat, next) ==
    LET gone == DatesToRemove(f, cat, l.cutoff)
    IN Goto(RemoveDateGroups(f, gone),
            [l EXCEPT !.removed = l.removed + Cardinality(gone)], next)

PurgePcs == {"p_open", "p_cat1", "p_cat2"}

PStep(f, l, t) ==
    CASE l.pc = "p_open" -> P_open(f, l, t)
      [] l.pc = "p_cat1" -> P_cat(f, l, Cats[1], "p_cat2")
      [] l.pc = "p_cat2" -> P_cat(f, l, Cats[2], "p_done")

RECURSIVE RunPurge(_, _, _)
RunPurge(f, l, t) ==
    IF l.pc = "p_done" THEN [f |-> f, l |-> l]
    ELSE LET r == PStep(f, l, t) IN RunPurge(r.f, r.l, t)

StartPurge(days) == [IdleL EXCEPT !.pc = "p_open", !.days = days]

\* ---- get_flights (lines 217-274) ------------------------------------------
\* a loop that compares calendar days: the bucket of today - days is kept
QueryKeepsWholeDays(date, days, t) == ~(date < Day(t) - days)

\* the loop also skipping the group that lies exactly at the cutoff
QueryKeepsAfterCutoff(date, days, t) == ~(Midnight(date) <= t - Days(days))

\* Lines 239-245: the date groups the loop does not skip
QueryKeeps(date, days, t) == ~(Midnight(date) < t - Days(days))

\* Iteration order of h5py groups: by name, so by date, then flight number
FnOrder(fn) == CASE fn = "F1" -> 1 [] fn = "F2" -> 2 [] OTHER -> 0
IterOrder(f, i) == f.dgs[f.recs[i].dg].date * 4 + FnOrder(f.recs[i].fn)

\* Lines 262-267: json.loads(history[-1]) raises on a slot never written
ReadRaises(r) == r.hist # None /\ Len(r.hist[1]) > 0 /\ r.hist[1][Len(r.hist[1])] = EmptyEntry

\* Lines 253-269: the dict built for one flight group
FlightView(f, i) ==
    LET r == f.recs[i]
        last == IF r.hist # None /\ Len(r.hist[1]) > 0
                THEN Some(r.hist[1][Len(r.hist[1])]) ELSE None
    IN [date_key |-> f.dgs[r.dg].date,
        flight_number |-> r.fn,
        attrs |-> r.attrs,
        current_status |-> IF last = None THEN None ELSE Some(last[1].status),
        status_updated_at |-> IF last = None THEN None ELSE Some(last[1].ts)]

\* get_flights(flight_type, days) at time t: the dicts appended before the
\* first exception (which ends the loop and returns what was collected)
get_flights(f, cat, days, t) ==
    LET visited == {i \in DOMAIN f.recs :
                      /\ f.dgs[f.recs[i].dg].cat = cat
                      /\ QueryKeeps(f.dgs[f.recs[i].dg].date, days, t)}
        reached == {i \in visited :
                      \A j \in visited : ReadRaises(f.recs[j]) => IterOrder(f, i) < IterOrder(f, j)}
    IN {FlightView(f, i) : i \in reached}

\* ---- threads ----------------------------------------------------------------
Threads == {"writer", "app"}

\* The thread is inside `with h5py.File(self.db_path, 'a')`
InMutatingSection(t) == th[t].pc \in WritePcs \cup PurgePcs

\* store calls (add_flight, cleanup_old_data) made in one behaviour
MaxCalls == 4
MaxNow == 3

UpsertsStarted ==
    Cardinality({i \in 1..Len(calls) : calls[i].op = "add"})
    + (IF th["app"].pc \in WritePcs THEN 1 ELSE 0)
PurgesStarted ==
    Cardinality({i \in 1..Len(calls) : calls[i].op = "purge"})
    + (IF th["app"].pc \in PurgePcs THEN 1 ELSE 0)

\* A returned call: res is add_flight's return value, n is cleanup_old_data's
Call(op, async, fd, ft, res, n, t) ==
    [op |-> op, async |-> async, fd |-> fd, ft |-> ft, res |-> res, n |-> n,
     t |-> t, day |-> Day(t)]

InitStore ==
    /\ now = TicksPerDay
    /\ h5 = EmptyFile
    /\ write_queue = <<>>
    /\ unfinished_tasks = 0
    /\ th = [t \in Threads |-> IdleL]
    /\ calls = <<>>
    /\ last_call = None

\* add_flight(flight_data, flight_type): lines 86-89, queue and return True
AddFlightAsync(fd, ft) ==
    /\ th["app"].pc = "idle"
    /\ UpsertsStarted + PurgesStarted < MaxCalls
    /\ write_queue' = Append(write_queue, [fd |-> fd, ft |-> ft])
    /\ unfinished_tasks' = unfinished_tasks + 1
    /\ calls' = Append(calls, Call("add", TRUE, fd, ft, TRUE, 0, now))
    /\ UNCHANGED <<now, h5, th, last_call, scorerVars, backupVars, archiveVars, cacheVars, callVars>>

\* add_flight(flight_data, flight_type, async_write=False): lines 90-92
AddFlightSyncCall(fd, ft) ==
    /\ th["app"].pc = "idle"
    /\ UpsertsStarted + PurgesStarted < MaxCalls
    /\ th' = [th EXCEPT !["app"] = StartWrite(fd, ft)]
    /\ UNCHANGED <<now, h5, write_queue, unfinished_tasks, calls, last_call, scorerVars, backupVars, archiveVars, cacheVars, callVars>>

\* the calling thread inside _write_flight_sync; the last step returns
AddFlightSyncStep ==
    /\ UNCHANGED <<scorerVars, backupVars, archiveVars, cacheVars, callVars>>
    /\ th["app"].pc \in WritePcs
    /\ LET r == WStep(h5, th["app"], now)
       IN /\ h5' = r.f
          /\ IF r.l.pc = "w_done"
             THEN /\ th' = [th EXCEPT !["app"] = IdleL]
                  /\ calls' = Append(calls, Call("add", FALSE, r.l.fd, r.l.ft, r.l.res, 0, now))
             ELSE /\ th' = [th EXCEPT !["app"] = r.l]
                  /\ UNCHANGED calls
    /\ UNCHANGED <<now, write_queue, unfinished_tasks, last_call, scorerVars, backupVars, archiveVars, cacheVars, callVars>>

\* _async_writer_loop, lines 47-52: take the next task off the queue
WriterGet ==
    /\ th["writer"].pc = "idle"
    /\ write_queue # <<>>
    /\ th' = [th EXCEPT !["writer"] = StartWrite(Head(write_queue).fd, Head(write_queue).ft)]
    /\ write_queue' = Tail(write_queue)
    /\ UNCHANGED <<now, h5, unfinished_tasks, calls, last_call, scorerVars, backupVars, archiveVars, cacheVars, callVars>>

\* the writer thread inside _write_flight_sync; after its return, line 53:
\* task_done()
WriterStep ==
    /\ UNCHANGED <<scorerVars, backupVars, archiveVars, cacheVars, callVars>>
    /\ th["writer"].pc \in WritePcs
    /\ LET r == WStep(h5, th["writer"], now)
       IN /\ h5' = r.f
          /\ IF r.l.pc = "w_done"
             THEN /\ th' = [th EXCEPT !["writer"] = IdleL]
                  /\ unfinished_tasks' = unfinished_tasks - 1
             ELSE /\ th' = [th EXCEPT !["writer"] = r.l]
                  /\ UNCHANGED unfinished_tasks
    /\ UNCHANGED <<now, write_queue, calls, last_call, scorerVars, backupVars, archiveVars, cacheVars, callVars>>

\* cleanup_old_data(days) is called
CleanupCall(days) ==
    /\ th["app"].pc = "idle"
    /\ UpsertsStarted + PurgesStarted < MaxCalls
    /\ th' = [th EXCEPT !["app"] = StartPurge(days)]
    /\ UNCHANGED <<now, h5, write_queue, unfinished_tasks, calls, last_call, scorerVars, backupVars, archiveVars, cacheVars, callVars>>

CleanupStep ==
    /\ UNCHANGED <<scorerVars, backupVars, archiveVars, cacheVars, callVars>>
    /\ th["app"].pc \in PurgePcs
    /\ LET r == PStep(h5, th["app"], now)
       IN /\ h5' = r.f
          /\ IF r.l.pc = "p_done"
             THEN /\ th' = [th EXCEPT !["app"] = IdleL]
                  /\ calls' = Append(calls, Call("purge", FALSE, NoFD, "", TRUE, r.l.removed, now))
             ELSE /\ th' = [th EXCEPT !["app"] = r.l]
                  /\ UNCHANGED calls
    /\ UNCHANGED <<now, write_queue, unfinished_tasks, last_call, scorerVars, backupVars, archiveVars, cacheVars, callVars>>

\* flush_queue() is called (lines 203-206): the caller blocks in
\* self.write_queue.join()
FlushCall ==
    /\ th["app"].pc = "idle"
    /\ Len(calls) < MaxCalls
    /\ th' = [th EXCEPT !["app"] = [IdleL EXCEPT !.pc = "f_join"]]
    /\ UNCHANGED <<now, h5, write_queue, unfinished_tasks, calls, last_call, scorerVars, backupVars, archiveVars, cacheVars, callVars>>

\* write_queue.join() returning at once
JoinReturnsAtOnce == TRUE

\* write_queue.join() returns with task_done called for every task put
JoinReturns == unfinished_tasks = 0

\* flush_queue() returns; n is the number of tasks not yet marked done
FlushReturn ==
    /\ th["app"].pc = "f_join"
    /\ JoinReturns
    /\ th' = [th EXCEPT !["app"] = IdleL]
    /\ calls' = Append(calls, Call("flush", FALSE, NoFD, "", TRUE, unfinished_tasks, now))
    /\ UNCHANGED <<now, h5, write_queue, unfinished_tasks, last_call, scorerVars, backupVars, archiveVars, cacheVars, callVars>>

\* The writer thread has left _async_writer_loop.  Only the loop condition
\* (stop_writer set, line 44) and the poison pill (lines 48-49) leave it
WriterStopped == th["writer"].pc = "stopped"

\* close(): the class body defines close twice (lines 208-215 and 395-397);
\* the second definition replaces the first, and its body is `pass`
Close ==
    /\ th["app"].pc = "idle"
    /\ Len(calls) < MaxCalls
    /\ calls' = Append(calls, Call("close", FALSE, NoFD, "", TRUE, unfinished_tasks, now))
    /\ UNCHANGED <<now, h5, write_queue, unfinished_tasks, th, last_call, scorerVars, backupVars, archiveVars, cacheVars, callVars>>

\* the clock advances
Tick ==
    /\ now < MaxNow
    /\ now' = now + 1
    /\ UNCHANGED <<h5, write_queue, unfinished_tasks, th, calls, last_call, scorerVars, backupVars, archiveVars, cacheVars, callVars>>

\* The code never compares statuses: the k-th add_flight call carries the
\* k-th name, so that every observation is told apart from the others
StatusNames == <<"On Time", "Delayed", "Boarding", "Landed", "Cancelled">>

\* observations of one flight that fall into today's bucket (scheduled_time
\* 'N/A')
StoreInputs ==
    [flight_number : {"F1"}, scheduled_time : {TNA},
     status : {StatusNames[(UpsertsStarted % Len(StatusNames)) + 1]}]

\* ---- the store used by one thread, each call run to its return ----------------
TotalEntries(f) ==
    LET RECURSIVE Sum(_)
        Sum(S) == IF S = {} THEN 0
                  ELSE LET i == CHOOSE x \in S : TRUE
                       IN (IF f.recs[i].hist = None THEN 0 ELSE Len(f.recs[i].hist[1]))
                          + Sum(S \ {i})
    IN Sum(DOMAIN f.recs)

MaxStored == 2

\* add_flight(fd, ft, async_write=False), from call to return
Upsert(fd, ft) ==
    /\ TotalEntries(h5) < MaxStored
    /\ h5.nextId <= 2 * MaxStored
    /\ UNCHANGED <<scorerVars, backupVars, archiveVars, cacheVars, callVars>>
    /\ LET r == RunWrite(h5, StartWrite(fd, ft), now)
       IN /\ h5' = r.f
          /\ last_call' = Some(Call("add", FALSE, fd, ft, r.l.res, 0, now))
    /\ UNCHANGED <<now, write_queue, unfinished_tasks, th, calls>>

\* A returned cleanup_old_data(days): n is its return value
PurgeCall(days, n, t) ==
    [op |-> "purge", days |-> days, res |-> TRUE, n |-> n, t |-> t, day |-> Day(t)]

\* cleanup_old_data(days), from call to return
Purge(days) ==
    /\ UNCHANGED <<scorerVars, backupVars, archiveVars, cacheVars, callVars>>
    /\ LET r == RunPurge(h5, StartPurge(days), now)
       IN /\ h5' = r.f
          /\ last_call' = Some(PurgeCall(days, r.l.removed, now))
    /\ UNCHANGED <<now, write_queue, unfinished_tasks, th, calls>>

MaxDays == 2

SeqScheds == {TAbsent, TNone, TNA, TJunk, TJunkT, TBare(5), TBadBare}
             \cup {TIso(d, 0) : d \in 0..(Day(MaxNow) + 1)}

\* as in StoreInputs the status names the observation: the entry it would add
SeqInputs ==
    [flight_number : {"F1"}, scheduled_time : SeqScheds,
     status : {StatusNames[(TotalEntries(h5) % Len(StatusNames)) + 1]}]


\* add_flight(fd, ft, async_write=False) called again with the observation of
\* the call before it
UpsertAgain ==
    /\ last_call # None
    /\ last_call[1].op = "add"
    /\ TotalEntries(h5) < MaxStored
    /\ h5.nextId <= 2 * MaxStored
    /\ LET fd == last_call[1].fd
           ft == last_call[1].ft
           r == RunWrite(h5, StartWrite(fd, ft), now)
       IN /\ h5' = r.f
          /\ last_call' = Some(Call("add", FALSE, fd, ft, r.l.res, 0, now))
    /\ UNCHANGED <<now, write_queue, unfinished_tasks, th, calls>>
    /\ UNCHANGED <<scorerVars, backupVars, archiveVars, cacheVars, callVars>>

(***************************************************************************)
(* Backup manager (backup_manager.py)                                      *)
(*                                                                         *)
(* An artifact is a file flight_history_{type}_{stamp}.{ext}[.gz] of       *)
(* backup_dir: [type, stamp, ext, gz, mtime]; stamp is the hour of the     *)
(* create_backup call that made it (the timestamp in its name), mtime the  *)
(* file's modification time, which is what the sweeps read.  Times are in  *)
(* hours.                                                                  *)
(***************************************************************************)
\* self.config, lines 42-48
hourly_retention == 12
daily_retention == 14
weekly_retention == 8
monthly_retention == 6
compress_after_days == 3

HoursPerDay == 24

Artifact(type, stamp, ext, gz, mtime) ==
    [type |-> type, stamp |-> stamp, ext |-> ext, gz |-> gz, mtime |-> mtime]

\* lines 212-217: the tiers and their retention_days, here in hours
Tiers == <<"hourly", "daily", "weekly", "monthly">>
TierSet == {Tiers[i] : i \in 1..4}
RetentionHours(type) ==
    CASE type = "hourly" -> (hourly_retention * HoursPerDay) \div 24
      [] type = "daily" -> daily_retention * HoursPerDay
      [] type = "weekly" -> weekly_retention * 7 * HoursPerDay
      [] type = "monthly" -> monthly_retention * 30 * HoursPerDay

\* the mtime shutil.copy2 gives the HDF5 artifact is the live store's own:
\* the hour of the store's last write, here this hour or MaxStaleHours ago
MaxStaleHours == 96
LiveStoreMtimes(t) == {t, t - MaxStaleHours}

\* lines 55-131: create_backup(backup_type) with both databases present
create_backup(fs, type, t, live_mtime) ==
    fs \cup {Artifact(type, t, "db", FALSE, t),
             Artifact(type, t, "h5", FALSE, live_mtime)}

\* the sweep without the test of lines 142-143 / 163-164
GzTwinIgnored(fs, a) == FALSE

\* lines 142 / 163: `backup_file.with_suffix('.db.gz').exists()`
GzTwinExists(fs, a) ==
    \E b \in fs : b.type = a.type /\ b.stamp = a.stamp /\ b.ext = a.ext /\ b.gz

\* lines 140-188: the uncompressed artifacts the sweep compresses
CompressDue(fs, t) ==
    {a \in fs : /\ ~a.gz
                /\ ~GzTwinExists(fs, a)
                /\ a.mtime < t - compress_after_days * HoursPerDay}

\* gzip.open(f'{backup_file}.gz', 'wb') writes a new file: its mtime is now
Gzipped(a, t) == Artifact(a.type, a.stamp, a.ext, TRUE, t)

\* lines 133-201
compress_old_backups(fs, t) ==
    (fs \ CompressDue(fs, t)) \cup {Gzipped(a, t) : a \in CompressDue(fs, t)}

\* line 210: glob('flight_history_*.db*')
CleanupCandidates(fs) == {a \in fs : a.ext = "db"}

\* the sweep treating a file of no tier as a daily backup
CleanupDueEveryType(fs, t) ==
    {a \in CleanupCandidates(fs) :
        a.mtime < t - (IF a.type \in TierSet THEN RetentionHours(a.type)
                       ELSE daily_retention * HoursPerDay)}

\* lines 218-226: the files of one tier older than its cutoff
CleanupDue(fs, t) ==
    {a \in CleanupCandidates(fs) :
        /\ a.type \in TierSet
        /\ a.mtime < t - RetentionHours(a.type)}

\* lines 203-241
cleanup_old_backups(fs, t) == fs \ CleanupDue(fs, t)

\* ---- a sweep in which an artifact cannot be processed ----------------------
\* The metadata file of an artifact: backup_file.with_suffix('.json') (line
\* 181) and str(backup_file).replace('.db.gz', '.json.gz').replace('.db',
\* '.json') (line 231); the .db and the .h5 artifact of one create_backup
\* call share it
Sidecar(type, stamp, gz) == [type |-> type, stamp |-> stamp, gz |-> gz]
SidecarOf(a) == Sidecar(a.type, a.stamp, a.gz)

\* lines 181-186: the metadata files of the compressed HDF5 artifacts are
\* compressed with them; the SQLite loop (lines 140-158) leaves them
CompressSidecars(sc, done) ==
    LET moved == {SidecarOf(a) : a \in {b \in done : b.ext = "h5"}} \cap sc
    IN (sc \ moved) \cup {Sidecar(m.type, m.stamp, TRUE) : m \in moved}

\* lines 231-233: the metadata file of a removed artifact is removed
CleanupSidecars(sc, done) == sc \ {SidecarOf(a) : a \in done}

\* How a failing artifact fails in compress_old_backups: open(backup_file,
\* 'rb') raises (line 152 / 173), or the .gz is written and
\* backup_file.unlink() raises (line 157 / 178)
FailModes == {"open", "unlink"}

SweepResult(fs, sc, raised) == [files |-> fs, sidecars |-> sc, raised |-> raised]

\* One loop of compress_old_backups (lines 140-158 for "db", 161-188 for
\* "h5") over the artifacts of fs, those in bad raising as mode says: the
\* loop ends at the first failing artifact it meets, and glob() yields the
\* artifacts in no particular order, so any set of the other due artifacts
\* can have been compressed before it
CompressLoop(fs, sc, t, ext, bad, mode) ==
    LET due == {a \in CompressDue(fs, t) : a.ext = ext}
        ok == due \ bad
    IN IF due \cap bad = {}
       THEN {SweepResult((fs \ due) \cup {Gzipped(a, t) : a \in due},
                         CompressSidecars(sc, due), FALSE)}
       ELSE {SweepResult(((fs \ P) \cup {Gzipped(a, t) : a \in P})
                            \cup (IF mode = "unlink" THEN {Gzipped(f, t)} ELSE {}),
                         CompressSidecars(sc, P), TRUE) :
                f \in due \cap bad, P \in SUBSET ok}

\* lines 133-201: the SQLite loop, then the HDF5 loop, inside one try; the
\* except at line 200 ends the sweep
CompressOutcomes(fs, sc, t, bad, mode) ==
    UNION {IF r.raised THEN {r}
           ELSE CompressLoop(r.files, r.sidecars, t, "h5", bad, mode) :
             r \in CompressLoop(fs, sc, t, "db", bad, mode)}

\* lines 203-241: the tiers and their files inside one try; an artifact of bad
\* raises at backup_file.unlink() (line 228) and the except at line 240 ends
\* the sweep.  The tiers are visited in the order of Tiers.
TierIndex(type) == CHOOSE i \in 1..4 : Tiers[i] = type
CleanupOutcomes(fs, sc, t, bad) ==
    LET due == CleanupDue(fs, t)
    IN IF due \cap bad = {}
       THEN {SweepResult(fs \ due, CleanupSidecars(sc, due), FALSE)}
       ELSE UNION {{SweepResult(fs \ P, CleanupSidecars(sc, P), TRUE) :
                      P \in {Q \in SUBSET (due \ bad) :
                               /\ \A a \in Q : TierIndex(a.type) <= TierIndex(f.type)
                               /\ \A a \in due \ bad :
                                     TierIndex(a.type) < TierIndex(f.type) => a \in Q}} :
                   f \in {g \in due \cap bad :
                            \A b \in due \cap bad : TierIndex(b.type) >= TierIndex(g.type)}}

\* A sweep that ran: its call, the artifacts that could not be processed, the
\* directory it found
Sweep(op, bad, before) == [op |-> op, bad |-> bad, before |-> before]

\* ---- run_backup_scheduler (lines 339-371) ----------------------------------
MaxBackups == 1
MaxHours == 345

HourOfDay(t) == t % HoursPerDay
\* the scheduler is started on a Sunday at 00:00
IsSunday(t) == (t \div HoursPerDay) % 7 = 0

InitBackup ==
    /\ bnow = 0
    /\ files = {}
    /\ swept = FALSE
    /\ nbackups = 0
    /\ sidecars = {}
    /\ last_sweep = None
    /\ faults_left = 0

\* when create_backup(type) is called: line 354 at the start, the jobs of
\* lines 346-348, or a direct call (manual, monthly)
CreateTime(type, t) ==
    CASE type = "startup" -> t = 0
      [] type = "hourly" -> t >= 1
      [] type = "daily" -> HourOfDay(t) = 2
      [] type = "weekly" -> IsSunday(t) /\ HourOfDay(t) = 3
      [] OTHER -> TRUE

BackupTypes == {"startup", "hourly", "daily", "weekly", "monthly", "manual"}

CreateBackup(type) ==
    /\ CreateTime(type, bnow)
    /\ nbackups < MaxBackups
    /\ ~\E a \in files : a.type = type /\ a.stamp = bnow
    /\ \E m \in LiveStoreMtimes(bnow) : files' = create_backup(files, type, bnow, m)
    /\ nbackups' = nbackups + 1
    /\ UNCHANGED <<bnow, swept, sidecars, last_sweep, faults_left, scorerVars, storeVars, archiveVars, cacheVars, callVars>>

\* line 349: every day at 04:00
CompressOldBackups ==
    /\ HourOfDay(bnow) = 4 /\ ~swept
    /\ \E bad \in SUBSET CompressDue(files, bnow), mode \in FailModes :
         /\ bad = {} => mode = "open"
         /\ bad # {} => faults_left > 0
         /\ faults_left' = IF bad = {} THEN faults_left ELSE faults_left - 1
         /\ \E r \in CompressOutcomes(files, sidecars, bnow, bad, mode) :
              /\ files' = r.files
              /\ sidecars' = r.sidecars
         /\ last_sweep' = Some(Sweep("compress", bad, files))
    /\ swept' = TRUE
    /\ UNCHANGED <<bnow, nbackups, scorerVars, storeVars, archiveVars, cacheVars, callVars>>

\* line 350: every day at 05:00
CleanupOldBackups ==
    /\ HourOfDay(bnow) = 5 /\ ~swept
    /\ \E bad \in SUBSET CleanupDue(files, bnow) :
         /\ bad # {} => faults_left > 0
         /\ faults_left' = IF bad = {} THEN faults_left ELSE faults_left - 1
         /\ \E r \in CleanupOutcomes(files, sidecars, bnow, bad) :
              /\ files' = r.files
              /\ sidecars' = r.sidecars
         /\ last_sweep' = Some(Sweep("cleanup", bad, files))
    /\ swept' = TRUE
    /\ UNCHANGED <<bnow, nbackups, scorerVars, storeVars, archiveVars, cacheVars, callVars>>

\* an hour passes, once the sweep due in it has run
TickHour ==
    /\ bnow < MaxHours
    /\ HourOfDay(bnow) \in {4, 5} => swept
    /\ bnow' = bnow + 1
    /\ swept' = FALSE
    /\ last_sweep' = None
    /\ UNCHANGED <<files, nbackups, sidecars, faults_left, scorerVars, storeVars, archiveVars, cacheVars, callVars>>

\* ---- one night's sweeps over a backup directory -----------------------------
\* The directory the 04:00 sweep of day 14 finds: up to MaxArtifacts artifacts
\* of one create_backup timestamp per tier, each file a day old, a few days
\* old or older than every retention window of the tiers modelled, with or
\* without its metadata file
MaxArtifacts == 3
MaxFaults == 1
SweepStart == 14 * HoursPerDay + 4
SweepTypes == {"hourly", "daily"}
SweepAges == {1 * HoursPerDay, 4 * HoursPerDay, 15 * HoursPerDay}
SweepUniverse ==
    {Artifact(type, 0, ext, gz, SweepStart - age) :
        type \in SweepTypes, ext \in {"db", "h5"}, gz \in BOOLEAN, age \in SweepAges}
SameFile(a, b) == a.type = b.type /\ a.stamp = b.stamp /\ a.ext = b.ext /\ a.gz = b.gz

\* the directories of up to n files of U, no two with the same name
RECURSIVE DirectoriesOf(_, _)
DirectoriesOf(U, n) ==
    IF n = 0 THEN {{}}
    ELSE LET smaller == DirectoriesOf(U, n - 1)
         IN  smaller \cup
             UNION {{fs \cup {a} : a \in {b \in U : \A c \in fs : ~SameFile(b, c)}} :
                    fs \in smaller}
Directories(n) == DirectoriesOf(SweepUniverse, n)

InitSweep ==
    /\ bnow = SweepStart
    /\ files \in Directories(MaxArtifacts)
    /\ sidecars \in {{}, {SidecarOf(a) : a \in files}}
    /\ swept = FALSE
    /\ nbackups = MaxBackups
    /\ last_sweep = None
    /\ faults_left = MaxFaults

\* ---- a backup directory holding startup and manual backups -------------------
\* The directory the 04:00 sweep of day 14 finds: startup, manual and weekly
\* artifacts a day old or older than every retention window (200 days)
KeptTypes == {"startup", "manual", "weekly"}
KeptAges == {1 * HoursPerDay, 200 * HoursPerDay}
KeptUniverse ==
    {Artifact(type, 0, ext, gz, SweepStart - age) :
        type \in KeptTypes, ext \in {"db", "h5"}, gz \in BOOLEAN, age \in KeptAges}

InitKept ==
    /\ bnow = SweepStart
    /\ files \in DirectoriesOf(KeptUniverse, MaxArtifacts)
    /\ sidecars = {}
    /\ swept = FALSE
    /\ nbackups = 0
    /\ last_sweep = None
    /\ faults_left = 0

(***************************************************************************)
(* Archive export (backup_manager.py, export_old_data) over the flights    *)
(* table of flight_history.db (flight_history.py, _init_database)          *)
(***************************************************************************)
\* flight_history.py lines 28-53: the columns of the flights table that hold
\* a key or a time
FlightsColumns == {"id", "flight_number", "first_seen", "last_updated"}

\* a row of the table; the times are dates, in days
FlightRow(id, first_seen, last_updated) ==
    [id |-> id, flight_number |-> "F1", first_seen |-> first_seen,
     last_updated |-> last_updated]

\* backup_manager.py lines 258 and 280: the column the WHERE clauses name
WhereColumn == "timestamp"

\* lines 256-259 / 278-281: `WHERE date(<column>) < date(?)`; sqlite3 raises
\* OperationalError (no such column) when the table has no such column
SqlRaises(column) == column \notin FlightsColumns
OlderThan(rows, column, cutoff_date) == {r \in rows : r[column] < cutoff_date}

\* line 247: archive_{cutoff_date}.json.gz
ArchiveFile(cutoff_date, rows) == [cutoff_date |-> cutoff_date, flights |-> rows]

\* line 274: gzip.open(archive_file, 'wt') creates the file or truncates the
\* one of that name
WriteArchive(dir, f) == {g \in dir : g.cutoff_date # f.cutoff_date} \cup {f}

ExportResult(rows, dir, raised) == [flights_table |-> rows, archive_dir |-> dir, raised |-> raised]

\* lines 243-292
export_old_data(rows, dir, t, days_old) ==
    LET cutoff_date == t - days_old
    IN IF SqlRaises(WhereColumn)
       THEN ExportResult(rows, dir, TRUE)
       ELSE LET old_flights == OlderThan(rows, WhereColumn, cutoff_date)
            IN IF old_flights # {}
               THEN ExportResult(rows \ old_flights,
                                 WriteArchive(dir, ArchiveFile(cutoff_date, old_flights)),
                                 FALSE)
               ELSE ExportResult(rows, dir, FALSE)

\* ---- the calls ----------------------------------------------------------------
MaxRows == 2
MaxArchiveDays == 3
MaxRowAge == 4
\* days_old of the calls: run_backup_scheduler passes 90 (line 351); the model
\* counts in days of the same clock, with shorter windows
DaysOld == {1, 3}

\* the flights table as the process finds it (CREATE TABLE IF NOT EXISTS,
\* flight_history.py line 28): up to MaxRows rows first seen up to MaxRowAge
\* days ago
RowUniverse ==
    {FlightRow(id, fs, lu) : id \in 1..MaxRows, fs \in (0 - MaxRowAge)..0, lu \in {0 - MaxRowAge, 0}}
Tables ==
    {rows \in SUBSET RowUniverse :
        /\ \A r \in rows : r.first_seen <= r.last_updated
        /\ \A r, q \in rows : r.id = q.id => r = q}

InitArchive ==
    /\ today = 0
    /\ flights_table \in Tables
    /\ archive_dir = {}
    /\ last_export = None

Export(days_old, before) == [days_old |-> days_old, before |-> before]

\* export_old_data(days_old)
ExportOldData(days_old) ==
    /\ last_export = None
    /\ LET r == export_old_data(flights_table, archive_dir, today, days_old)
       IN /\ flights_table' = r.flights_table
          /\ archive_dir' = r.archive_dir
    /\ last_export' = Some(Export(days_old, flights_table))
    /\ UNCHANGED <<today, scorerVars, storeVars, backupVars, cacheVars, callVars>>

\* a day passes
NextDay ==
    /\ today < MaxArchiveDays
    /\ today' = today + 1
    /\ last_export' = None
    /\ UNCHANGED <<flights_table, archive_dir, scorerVars, storeVars, backupVars, cacheVars, callVars>>

ArchiveIdle ==
    /\ today = 0 /\ flights_table = {} /\ archive_dir = {} /\ last_export = None

(***************************************************************************)
(* Cache tier: RedisCache (redis_cache.py), the in-process cache of the    *)
(* web process (api.py) and of the aggregator (data_sources.py)            *)
(***************************************************************************)
\* A cache key, by the parts a Redis glob pattern tells apart:
\* 'flights_json' is Key("flights", "_", "json"), 'flights:aggregated' is
\* Key("flights", ":", "aggregated"), 'flightradar24' is Key("flightradar24", "", "")
Key(ns, sep, name) == [ns |-> ns, sep |-> sep, name |-> name]
K_flights_json == Key("flights", "_", "json")
K_flightradar24 == Key("flightradar24", "", "")
K_aggregated == Key("flights", ":", "aggregated")
Keys == {K_flights_json, K_flightradar24, K_aggregated}

\* redis.keys("flights:*")
MatchesFlightsPattern(k) == k.ns = "flights" /\ k.sep = ":"

\* A cached value: a list of flights (each flight stands for the version of
\* the upstream data it came from), or the JSON text of one
Value(json, flights) == [json |-> json, flights |-> flights]
Dumps(flights) == Value(TRUE, flights)
Loads(v) == v.flights
\* Python truth of a value: '[]' is a non-empty string, [] is an empty list
ValueTruthy(v) == v.json \/ v.flights # <<>>

CACHE_TTL == 30
cache_timeout == 15

\* redis_cache.py lines 18-46: __init__, ping being the outcome of
\* self.redis.ping()
PingOutcomes == {"PONG", "ConnectionError", "TimeoutError"}
RedisCacheKeptEnabled(ping) == [enabled |-> TRUE]
RedisCache(ping) == [enabled |-> ping = "PONG"]

\* the keys of a Redis server that have not expired at time t
LiveEntry(server, key, t) == server[key] # None /\ t < server[key][1].expires

\* lines 48-69: get
cache_get(a, key, t) ==
    IF ~a.cache.enabled THEN None
    ELSE IF LiveEntry(a.server, key, t) THEN Some(a.server[key][1].value)
    ELSE None

\* lines 71-94: set; the result is the process after the call and the
\* value returned
CallResult(a, value) == [app |-> a, value |-> value]
cache_set(a, key, value, ttl, t) ==
    IF ~a.cache.enabled THEN CallResult(a, FALSE)
    ELSE CallResult([a EXCEPT !.server[key] = Some([value |-> value, expires |-> t + ttl])],
                    TRUE)

\* lines 96-106: delete
cache_delete(a, key) ==
    IF ~a.cache.enabled THEN CallResult(a, FALSE)
    ELSE CallResult([a EXCEPT !.server[key] = None], TRUE)

\* lines 108-128 and 197-199: clear_pattern("flights:*"), the number of keys
\* deleted
invalidate_all_flights(a, t) ==
    IF ~a.cache.enabled THEN CallResult(a, 0)
    ELSE LET keys == {k \in Keys : LiveEntry(a.server, k, t) /\ MatchesFlightsPattern(k)}
         IN CallResult([a EXCEPT !.server = [k \in Keys |-> IF k \in keys THEN None ELSE @[k]]],
                       Cardinality(keys))

\* api.py line 65-70: _cache
ApiCache(data_ts, flights_json) == [data_ts |-> data_ts, flights_json |-> flights_json]

\* api.py lines 135-170
ensure_fresh_data(a, t, flights_data) ==
    LET cached_flights == IF a.cache.enabled THEN cache_get(a, K_flights_json, t) ELSE None
    IN IF cached_flights # None /\ ValueTruthy(cached_flights[1])
       THEN [a EXCEPT !.mem = ApiCache(t, cached_flights)]
       ELSE IF t - a.mem.data_ts < CACHE_TTL /\ a.mem.flights_json # None
       THEN a
       ELSE LET fresh == Dumps(flights_data)
            IN cache_set([a EXCEPT !.mem = ApiCache(t, Some(fresh))],
                         K_flights_json, fresh, CACHE_TTL, t).app

\* api.py lines 173-178: GET /api/flights
api_flights(a, t, flights_data) ==
    LET b == ensure_fresh_data(a, t, flights_data)
    IN CallResult(b, IF b.mem.flights_json # None /\ ValueTruthy(b.mem.flights_json[1])
                     THEN Loads(b.mem.flights_json[1]) ELSE <<>>)

\* api.py lines 420-432: POST /api/cache/clear
api_cache_clear(a, t) ==
    LET r == invalidate_all_flights(a, t)
    IN CallResult([r.app EXCEPT !.mem = ApiCache(0, None)], r.value)

\* data_sources.py lines 511-517
_is_cached(a, t) == a.agg # None /\ t - a.agg[1].last_fetch < cache_timeout

\* data_sources.py lines 101-224: response is the list parsed from the
\* upstream feed, or None when the request fails
fetch_flightradar24_data(a, t, response) ==
    LET cached == cache_get(a, K_flightradar24, t)
    IN IF cached # None /\ ValueTruthy(cached[1]) THEN CallResult(a, cached[1].flights)
       ELSE IF _is_cached(a, t) THEN CallResult(a, a.agg[1].data)
       ELSE IF response = None THEN CallResult(a, <<>>)
       ELSE CallResult(
              cache_set([a EXCEPT !.agg = Some([data |-> response[1], last_fetch |-> t])],
                        K_flightradar24, Value(FALSE, response[1]), cache_timeout, t).app,
              response[1])

\* ---- two web processes, called alike -------------------------------------------
\* "on" found the Redis server at construction, "off" did not; every call
\* is made on both at the same time with the same upstream data
Procs == {"on", "off"}
MaxSeconds == 75
MaxVersion == 2

\* the Redis server of a process: empty, or holding what another process
\* left under the test keys
EmptyServer == [k \in Keys |-> None]
UsedServer ==
    [k \in Keys |-> Some([value |-> Value(k = K_flights_json, <<0>>), expires |-> MaxSeconds + 1])]

\* the process after _setup_tracker (api.py lines 111-126) at time 0
NewApp(ping, server) ==
    [cache |-> RedisCache(ping), server |-> server,
     mem |-> ApiCache(0, Some(Dumps(<<0>>))), agg |-> None]

InitCache ==
    /\ cnow = 0
    /\ tracker_data = <<0>>
    /\ \E ping \in PingOutcomes \ {"PONG"} :
         app = [p \in Procs |-> IF p = "on" THEN NewApp("PONG", EmptyServer)
                                ELSE NewApp(ping, UsedServer)]
    /\ ret = [p \in Procs |-> None]

\* ---- the calls, each made on both processes --------------------------------
Returned(op, value) == [op |-> op, value |-> value]

\* GET /api/flights
ApiFlights ==
    /\ app' = [p \in Procs |-> api_flights(app[p], cnow, tracker_data).app]
    /\ ret' = [p \in Procs |-> Some(Returned("api_flights", api_flights(app[p], cnow, tracker_data).value))]
    /\ UNCHANGED <<cnow, tracker_data, scorerVars, storeVars, backupVars, archiveVars, callVars>>

\* POST /api/cache/clear
ApiCacheClear ==
    /\ app' = [p \in Procs |-> api_cache_clear(app[p], cnow).app]
    /\ ret' = [p \in Procs |-> Some(Returned("api_cache_clear", api_cache_clear(app[p], cnow).value))]
    /\ UNCHANGED <<cnow, tracker_data, scorerVars, storeVars, backupVars, archiveVars, callVars>>

\* the answer of the upstream feed: the data the tracker holds, or a failure
Feed(ok) == IF ok THEN Some(tracker_data) ELSE None

\* aggregator.fetch_flightradar24_data()
FetchFlightradar24(ok) ==
    /\ app' = [p \in Procs |-> fetch_flightradar24_data(app[p], cnow, Feed(ok)).app]
    /\ ret' = [p \in Procs |-> Some(Returned("fetch_flightradar24_data", fetch_flightradar24_data(app[p], cnow, Feed(ok)).value))]
    /\ UNCHANGED <<cnow, tracker_data, scorerVars, storeVars, backupVars, archiveVars, callVars>>

\* RedisCache.get(key)
CacheGet(key) ==
    /\ app' = [p \in Procs |-> CallResult(app[p], cache_get(app[p], key, cnow)).app]
    /\ ret' = [p \in Procs |-> Some(Returned("get", CallResult(app[p], cache_get(app[p], key, cnow)).value))]
    /\ UNCHANGED <<cnow, tracker_data, scorerVars, storeVars, backupVars, archiveVars, callVars>>

\* RedisCache.set(key, value, ttl)
CacheSet(key) ==
    /\ app' = [p \in Procs |-> cache_set(app[p], key, Value(FALSE, tracker_data), cache_timeout, cnow).app]
    /\ ret' = [p \in Procs |-> Some(Returned("set", cache_set(app[p], key, Value(FALSE, tracker_data), cache_timeout, cnow).value))]
    /\ UNCHANGED <<cnow, tracker_data, scorerVars, storeVars, backupVars, archiveVars, callVars>>

\* RedisCache.delete(key)
CacheDelete(key) ==
    /\ app' = [p \in Procs |-> cache_delete(app[p], key).app]
    /\ ret' = [p \in Procs |-> Some(Returned("delete", cache_delete(app[p], key).value))]
    /\ UNCHANGED <<cnow, tracker_data, scorerVars, storeVars, backupVars, archiveVars, callVars>>

\* RedisCache.clear_pattern("flights:*")
CacheClearPattern ==
    /\ app' = [p \in Procs |-> invalidate_all_flights(app[p], cnow).app]
    /\ ret' = [p \in Procs |-> Some(Returned("clear_pattern", invalidate_all_flights(app[p], cnow).value))]
    /\ UNCHANGED <<cnow, tracker_data, scorerVars, storeVars, backupVars, archiveVars, callVars>>

\* the upstream data changes
TrackerUpdate ==
    /\ tracker_data[1] < MaxVersion
    /\ tracker_data' = <<tracker_data[1] + 1>>
    /\ UNCHANGED <<cnow, app, ret, scorerVars, storeVars, backupVars, archiveVars, callVars>>

\* time passes; the clock is read every cache_timeout seconds
TickClock ==
    /\ cnow < MaxSeconds
    /\ cnow' = cnow + cache_timeout
    /\ ret' = [p \in Procs |-> None]
    /\ UNCHANGED <<tracker_data, app, scorerVars, storeVars, backupVars, archiveVars, callVars>>

CacheIdle ==
    /\ cnow = 0 /\ tracker_data = <<0>>
    /\ app = [p \in Procs |-> NewApp("PONG", EmptyServer)]
    /\ ret = [p \in Procs |-> None]


(***************************************************************************)
(* Public operations called under an expected failure: a missing or        *)
(* malformed field, an unreachable backend, a table without the column     *)
(* the query names.  outcome records how the call ended.                   *)
(***************************************************************************)
Returned_(component, op, failure, result) ==
    [component |-> component, op |-> op, failure |-> failure,
     raised |-> FALSE, error |-> "", result |-> result]
Raised(component, op, failure, error) ==
    [component |-> component, op |-> op, failure |-> failure,
     raised |-> TRUE, error |-> error, result |-> ""]

\* the keys _evaluate_weather reads (delay_predictor.py lines 120-146)
NumericWeatherKeys == {"Precipitation_inches", "Wind_Speed_mph", "Visibility_miles"}
WeatherKeys == NumericWeatherKeys \cup {"Condition"}

\* _evaluate_weather on a dict whose key k holds None (JSON null): get()
\* returns the None, not the default, and `None > 0.5` (lines 121, 130) or
\* `None < 1` (line 139) raises TypeError, None.lower() (line 147)
\* AttributeError; nothing in _evaluate_weather or predict catches it
NullWeatherError(k) == IF k \in NumericWeatherKeys THEN "TypeError" ELSE "AttributeError"

\* predict(flight, weather) with weather[k] = None: line 63 finds the dict
\* truthy, line 64 raises; prediction_count (line 102) is not reached
PredictNullWeather(k) ==
    /\ outcome' = Some(Raised("Scorer", "predict", k, NullWeatherError(k)))
    /\ UNCHANGED <<scorerVars, storeVars, backupVars, archiveVars, cacheVars>>

\* predict(flight) with no weather and the fields the flight lacks
PredictIncomplete ==
    /\ prediction_count < MaxPredictions
    /\ prediction' = Some(predict(flight, None))
    /\ prediction_count' = prediction_count + 1
    /\ outcome' = Some(Returned_("Scorer", "predict", "missing fields", "dict"))
    /\ UNCHANGED <<flight, weather, storeVars, backupVars, archiveVars, cacheVars>>

\* RedisCache() with the server answering ping or not (redis_cache.py lines
\* 18-46)
RedisConnect(ping) ==
    /\ outcome' = Some(Returned_("Cache", "__init__", ping,
                                 IF RedisCache(ping).enabled THEN "enabled" ELSE "disabled"))
    /\ UNCHANGED <<scorerVars, storeVars, backupVars, archiveVars, cacheVars>>

\* scheduled_time values _write_flight_sync cannot parse or store
BadScheds == {TJunk, TJunkT, TBadBare, TNone}

\* add_flight(fd, 'arrivals', async_write=False) with such a value
\* (hdf5_storage.py lines 90-92, 199-201)
AddFlightUnparseable(sched) ==
    /\ TotalEntries(h5) < MaxStored
    /\ h5.nextId <= 2 * MaxStored
    /\ LET fd == [flight_number |-> "F1", scheduled_time |-> sched, status |-> "On Time"]
           r == RunWrite(h5, StartWrite(fd, Cats[1]), now)
       IN /\ h5' = r.f
          /\ outcome' = Some(Returned_("Store", "add_flight", sched.kind,
                                       IF r.l.res THEN "True" ELSE "False"))
    /\ UNCHANGED <<now, write_queue, unfinished_tasks, th, calls, last_call>>
    /\ UNCHANGED <<scorerVars, backupVars, archiveVars, cacheVars>>

\* export_old_data(90) on the flights table (backup_manager.py lines 243-292)
ExportCall ==
    /\ LET r == export_old_data(flights_table, archive_dir, today, 90)
       IN /\ flights_table' = r.flights_table
          /\ archive_dir' = r.archive_dir
          /\ outcome' = Some(Returned_("Backup Manager", "export_old_data",
                                       IF r.raised THEN "OperationalError" ELSE "none",
                                       "None"))
    /\ UNCHANGED <<today, last_export>>
    /\ UNCHANGED <<scorerVars, storeVars, backupVars, cacheVars>>

(***************************************************************************)
(* The flight history table (flight_history.py): save_flight and           *)
(* save_flights_batch over the flights table of _init_database             *)
(***************************************************************************)
\* Lines 112-119: the `?` placeholders of the INSERT statement, one for each
\* of the 21 columns it names
Placeholders == 21

\* Lines 127-131: the values of the tuple passed to cursor.execute
BoundValues == 12

\* cursor.execute with a tuple whose length differs from the number of
\* placeholders raises sqlite3.ProgrammingError (Incorrect number of bindings
\* supplied) before any row is touched
BindingsRaise == Placeholders # BoundValues

\* Line 32: flight_number TEXT NOT NULL; flight.get('Flight_Number',
\* 'UNKNOWN') is None for a flight whose Flight_Number is None (line 87)
NotNullRaises(f) == f.Flight_Number = None

\* Line 51: UNIQUE(flight_number, scheduled_time, flight_type)
HistoryKey(f) == <<f.Flight_Number, f.Scheduled_Time, f.Type>>
RowKey(r) == <<Some(r.flight_number), r.scheduled_time, r.flight_type>>
RowsOf(rows, k) == {r \in rows : RowKey(r) = k}

\* id INTEGER PRIMARY KEY AUTOINCREMENT over a table nothing was deleted from
NextRowId(rows) ==
    LET RECURSIVE Top(_)
        Top(S) == IF S = {} THEN 0
                  ELSE LET r == CHOOSE x \in S : TRUE
                       IN Max(r.id, Top(S \ {r}))
    IN Top(rows) + 1

\* Lines 112-119: the row INSERT adds; first_seen and last_updated default to
\* CURRENT_TIMESTAMP
HistoryRow(id, f, t) ==
    [id |-> id, flight_number |-> f.Flight_Number[1], scheduled_time |-> f.Scheduled_Time,
     flight_type |-> f.Type, status |-> f.Status, actual_time |-> f.Actual_Time,
     altitude |-> f.altitude, ground_speed |-> f.ground_speed,
     first_seen |-> t, last_updated |-> t]

\* Lines 120-126: ON CONFLICT ... DO UPDATE SET the five columns
UpdatedRow(r, f, t) ==
    [r EXCEPT !.status = f.Status, !.actual_time = f.Actual_Time,
              !.altitude = f.altitude, !.ground_speed = f.ground_speed,
              !.last_updated = t]

\* save_flight(flight), lines 80-140: the table after the call.  Any
\* exception of lines 82-137 is caught at line 139 and logged
save_flight(rows, f, t) ==
    IF BindingsRaise \/ NotNullRaises(f)
    THEN rows
    ELSE IF RowsOf(rows, HistoryKey(f)) = {}
         THEN rows \cup {HistoryRow(NextRowId(rows), f, t)}
         ELSE {IF RowKey(r) = HistoryKey(f) THEN UpdatedRow(r, f, t) ELSE r : r \in rows}

\* save_flights_batch(flights), lines 142-146: save_flight for each in turn
RECURSIVE save_flights_batch(_, _, _)
save_flights_batch(rows, fs, t) ==
    IF fs = <<>> THEN rows
    ELSE save_flights_batch(save_flight(rows, Head(fs), t), Tail(fs), t)

\* the flights handed to the history
HistoryInputs ==
    [Flight_Number : {Some("F1"), Some("F2"), None}, Scheduled_Time : {"2024-01-15T10:30:00"},
     Type : {"Arrival"}, Status : {"On Time", "Delayed"},
     Actual_Time : {"", "2024-01-15T10:45:00"}, altitude : {0}, ground_speed : {0}]

MaxBatch == 2
Batches == UNION {[1..n -> HistoryInputs] : n \in 0..MaxBatch}

\* a save call that has returned: what it was given and the table before it
Saved(op, fs, before) ==
    [component |-> "History", op |-> op, failure |-> "", raised |-> FALSE,
     error |-> "", result |-> "None", flights |-> fs, before |-> before]

SaveFlight(f) ==
    /\ flights_table' = save_flight(flights_table, f, today)
    /\ outcome' = Some(Saved("save_flight", <<f>>, flights_table))
    /\ UNCHANGED <<today, archive_dir, last_export, scorerVars, storeVars, backupVars, cacheVars>>

SaveFlightsBatch(fs) ==
    /\ flights_table' = save_flights_batch(flights_table, fs, today)
    /\ outcome' = Some(Saved("save_flights_batch", fs, flights_table))
    /\ UNCHANGED <<today, archive_dir, last_export, scorerVars, storeVars, backupVars, cacheVars>>
(***************************************************************************)
(* Specifications                                                          *)
(***************************************************************************)
\* no call made under a failure
NoCall == outcome = None

\* the predictor with no call made
ScorerIdle ==
    /\ flight = [Scheduled_Time |-> TAbsent, Airline |-> None, Type |-> Some("Arrival"),
                 Origin |-> None, Destination |-> None, inbound_delay_minutes |-> None]
    /\ weather = None
    /\ prediction = None
    /\ prediction_count = 0

\* The delay predictor applied to every input of FlightInputs x WeatherInputs
NextScorer ==
    \/ Predict
    \/ PredictOther
InitPredictor == InitScorer /\ InitStore /\ InitBackup /\ ArchiveIdle /\ CacheIdle /\ NoCall
SpecScorer == InitPredictor /\ [][NextScorer]_vars

\* The store under its threads: the writer thread and one calling thread,
\* interleaved at the h5py calls
NextStore ==
    \/ \E fd \in StoreInputs : AddFlightAsync(fd, Cats[1])
    \/ \E fd \in StoreInputs : AddFlightSyncCall(fd, Cats[1])
    \/ AddFlightSyncStep
    \/ WriterGet
    \/ WriterStep
    \/ CleanupCall(0)
    \/ CleanupStep
    \/ Tick
InitThreads == ScorerIdle /\ InitStore /\ InitBackup /\ ArchiveIdle /\ CacheIdle /\ NoCall
SpecStore == InitThreads /\ [][NextStore]_vars

\* The store called from one thread: every call runs to its return before
\* the next one starts
NextSeq ==
    \/ \E fd \in SeqInputs, i \in 1..2 : Upsert(fd, Cats[i])
    \/ \E days \in 0..MaxDays : Purge(days)
    \/ Tick
InitSingle == ScorerIdle /\ InitStore /\ InitBackup /\ ArchiveIdle /\ CacheIdle /\ NoCall
SpecSeq == InitSingle /\ [][NextSeq]_vars

\* The backup manager under run_backup_scheduler
NextBackup ==
    \/ \E type \in BackupTypes : CreateBackup(type)
    \/ CompressOldBackups
    \/ CleanupOldBackups
    \/ TickHour
InitScheduler == ScorerIdle /\ InitStore /\ InitBackup /\ ArchiveIdle /\ CacheIdle /\ NoCall
SpecBackup == InitScheduler /\ [][NextBackup]_vars

\* One night's sweeps of run_backup_scheduler over any backup directory, one
\* of them meeting artifacts it cannot process
NextSweep ==
    \/ CompressOldBackups
    \/ CleanupOldBackups
    \/ TickHour
InitNight == ScorerIdle /\ InitStore /\ InitSweep /\ ArchiveIdle /\ CacheIdle /\ NoCall
SpecSweep == InitNight /\ [][NextSweep]_vars

\* The archive export over any flights table
NextArchive ==
    \/ \E days_old \in DaysOld : ExportOldData(days_old)
    \/ NextDay
InitExport == ScorerIdle /\ InitStore /\ InitBackup /\ InitArchive /\ CacheIdle /\ NoCall
SpecArchive == InitExport /\ [][NextArchive]_vars

\* The web process reading through its caches, with and without the Redis
\* server
NextReads ==
    \/ ApiFlights
    \/ \E ok \in BOOLEAN : FetchFlightradar24(ok)
    \/ TrackerUpdate
    \/ TickClock
InitReads == ScorerIdle /\ InitStore /\ InitBackup /\ ArchiveIdle /\ InitCache /\ NoCall
SpecReads == InitReads /\ [][NextReads]_vars

\* RedisCache called directly, with and without the Redis server
NextCache ==
    \/ \E key \in Keys : CacheGet(key)
    \/ \E key \in Keys : CacheSet(key)
    \/ \E key \in Keys : CacheDelete(key)
    \/ CacheClearPattern
    \/ TrackerUpdate
    \/ TickClock
InitRedis == ScorerIdle /\ InitStore /\ InitBackup /\ ArchiveIdle /\ InitCache /\ NoCall
SpecCache == InitRedis /\ [][NextCache]_vars

\* The same reads, with manual cache clears between them
NextClear ==
    \/ ApiFlights
    \/ ApiCacheClear
    \/ \E ok \in BOOLEAN : FetchFlightradar24(ok)
    \/ TrackerUpdate
    \/ TickClock
InitClear == ScorerIdle /\ InitStore /\ InitBackup /\ ArchiveIdle /\ InitCache /\ NoCall
SpecClear == InitClear /\ [][NextClear]_vars


\* The delay predictor applied to every carrier and every hour, with the
\* other contributions at 0
InitContributions == InitPlain /\ InitStore /\ InitBackup /\ ArchiveIdle /\ CacheIdle /\ NoCall
SpecContributions == InitContributions /\ [][NextScorer]_vars

\* The store called from one thread, an observation being sent a second time
NextRepeat ==
    \/ \E fd \in SeqInputs, i \in 1..2 : Upsert(fd, Cats[i])
    \/ UpsertAgain
    \/ \E days \in 0..MaxDays : Purge(days)
    \/ Tick
InitRepeat == ScorerIdle /\ InitStore /\ InitBackup /\ ArchiveIdle /\ CacheIdle /\ NoCall
SpecRepeat == InitRepeat /\ [][NextRepeat]_vars

\* One night's sweeps over a directory that holds startup and manual backups,
\* with a manual backup made at any hour
NextUntiered ==
    \/ CreateBackup("manual")
    \/ CompressOldBackups
    \/ CleanupOldBackups
    \/ TickHour
InitUntiered == ScorerIdle /\ InitStore /\ InitKept /\ ArchiveIdle /\ CacheIdle /\ NoCall
SpecUntiered == InitUntiered /\ [][NextUntiered]_vars

\* The public operations of the four components, each under a failure it
\* is expected to meet
NextFailures ==
    \/ \E k \in WeatherKeys : PredictNullWeather(k)
    \/ PredictIncomplete
    \/ \E ping \in PingOutcomes : RedisConnect(ping)
    \/ \E sched \in BadScheds : AddFlightUnparseable(sched)
    \/ ExportCall
InitFailures == InitPlain /\ InitStore /\ InitBackup /\ ArchiveIdle /\ CacheIdle /\ NoCall
SpecFailures == InitFailures /\ [][NextFailures]_vars

\* The write queue and its writer thread: tasks are queued, the writer takes
\* and writes them, the caller flushes and closes.  The writer thread is
\* started by __init__ and loops on write_queue.get(timeout=1) for the life of
\* the process, so a scheduler that is fair to it takes each of its steps while
\* the step stays possible; join() wakes its caller once the count is zero
NextWriter ==
    \/ \E fd \in StoreInputs : AddFlightAsync(fd, Cats[1])
    \/ WriterGet
    \/ WriterStep
    \/ FlushCall
    \/ FlushReturn
    \/ Close
InitWriter == ScorerIdle /\ InitStore /\ InitBackup /\ ArchiveIdle /\ CacheIdle /\ NoCall
FairWriter == WF_vars(WriterGet) /\ WF_vars(WriterStep) /\ WF_vars(FlushReturn)
SpecWriter == InitWriter /\ [][NextWriter]_vars /\ FairWriter

\* The flight history: flights are saved one by one and in batches, day after
\* day, into a table that starts empty
NextHistory ==
    \/ \E f \in HistoryInputs : SaveFlight(f)
    \/ \E fs \in Batches : SaveFlightsBatch(fs)
    \/ NextDay
InitHistory == ScorerIdle /\ InitStore /\ InitBackup /\ ArchiveIdle /\ CacheIdle /\ NoCall
SpecHistory == InitHistory /\ [][NextHistory]_vars
(***************************************************************************)
(* C1: every predict() result has 0 <= risk_score <= 100 and               *)
(* 30 <= confidence <= 100.                                                *)
(***************************************************************************)
ScorerBounded ==
    prediction # None =>
        /\ 0 <= prediction[1].risk_score /\ prediction[1].risk_score <= 100
        /\ 30 <= prediction[1].confidence /\ prediction[1].confidence <= 100

\* ---- helpers of the store claims ---------------------------------------------
\* The hierarchical key (category, date, flight number) of flight group i
KeyOf(f, i) == <<f.dgs[f.recs[i].dg].cat, f.dgs[f.recs[i].dg].date, f.recs[i].fn>>
RecsWithKey(f, k) == {i \in DOMAIN f.recs : KeyOf(f, i) = k}
HistLen(f, i) == IF f.recs[i].hist = None THEN 0 ELSE Len(f.recs[i].hist[1])

\* calls holds exactly three add_flight calls with default arguments, made
\* today for one flight of one category
ThreeDefaultAdds ==
    /\ Len(calls) = 3
    /\ \A i \in 1..3 :
        /\ calls[i].op = "add" /\ calls[i].async
        /\ calls[i].ft = calls[1].ft
        /\ calls[i].fd.flight_number = calls[1].fd.flight_number
        /\ calls[i].day = Day(now)

\* get_flights(category, 1) shows the key once, with the third status and a
\* history of three entries
QueryShowsThird ==
    LET fn == calls[1].fd.flight_number
        mine == {v \in get_flights(h5, calls[1].ft, 1, now) : v.flight_number = fn}
        k == <<calls[1].ft, Day(now), fn>>
    IN /\ Cardinality(mine) = 1
       /\ \A v \in mine : v.current_status = Some(calls[3].fd.status)
       /\ Cardinality(RecsWithKey(h5, k)) = 1
       /\ \A i \in RecsWithKey(h5, k) : HistLen(h5, i) = 3

(***************************************************************************)
(* C2 as stated: once three add_flight calls with default arguments for    *)
(* the same key on the same day have returned, get_flights(category, 1)    *)
(* returns exactly one record for the key, with the third call's status    *)
(* and a status_history of length 3.                                       *)
(***************************************************************************)
ReadAfterThreeAdds == ThreeDefaultAdds => QueryShowsThird

\* flush_queue() would return: every queued task has been marked done
QueueDrained == unfinished_tasks = 0

(***************************************************************************)
(* C2 amended: once three add_flight calls with default arguments for the  *)
(* same key on the same day have returned AND the write queue has been     *)
(* drained (flush_queue() would return), with no other store call made or  *)
(* running, get_flights(category, 1) on that day returns exactly one       *)
(* record for the key, with the third call's status and a status_history   *)
(* of length 3.                                                            *)
(***************************************************************************)
ReadAfterThreeAddsFlushed ==
    ( /\ ThreeDefaultAdds
      /\ QueueDrained
      /\ th["app"].pc = "idle" )
    => QueryShowsThird

\* C2 witness: three default adds were drained and the query shows the third
ThreeAddsDrainedWitness ==
    /\ ThreeDefaultAdds
    /\ QueueDrained
    /\ th["app"].pc = "idle"
    /\ QueryShowsThird

\* Every (category, date) names at most one date group and every key at most
\* one flight group
KeyUnique(f) ==
    /\ \A i, j \in DOMAIN f.dgs : f.dgs[i] = f.dgs[j] => i = j
    /\ \A i, j \in DOMAIN f.recs : KeyOf(f, i) = KeyOf(f, j) => i = j

(***************************************************************************)
(* C4: after every step of any interleaving of queued upserts, synchronous *)
(* upserts and purges the store holds at most one record per               *)
(* (category, date, flight_id) key, and a step that leaves a key in the    *)
(* store leaves it on the same record (updated in place, never a second    *)
(* record for it).                                                         *)
(***************************************************************************)
OneRecordPerKey ==
    [][ /\ KeyUnique(h5')
        /\ \A i \in DOMAIN h5.recs :
              RecsWithKey(h5', KeyOf(h5, i)) # {} => RecsWithKey(h5', KeyOf(h5, i)) = {i}
      ]_vars

\* C4 witness: a key was upserted twice and holds both history entries
UpdatedInPlaceWitness ==
    \E i \in DOMAIN h5.recs :
        /\ HistLen(h5, i) = 2
        /\ h5.recs[i].hist[1][1] # EmptyEntry
        /\ h5.recs[i].hist[1][2] # EmptyEntry

\* the written entries of a history carry non-decreasing timestamps
HistSorted(h) ==
    \A a, b \in 1..Len(h) :
        (a < b /\ h[a] # EmptyEntry /\ h[b] # EmptyEntry) => h[a].ts <= h[b].ts

(***************************************************************************)
(* C5: for every stored key, under every interleaving of the writer thread *)
(* with synchronous upserts, the status_history timestamps are             *)
(* non-decreasing, an entry once written is never rewritten, and the       *)
(* history's length never decreases while the key stays in the store (it   *)
(* goes away only with its whole date group, by a purge).                  *)
(***************************************************************************)
HistoryAppendOnly ==
    [][ \A i \in DOMAIN h5'.recs :
          /\ h5'.recs[i].hist # None => HistSorted(h5'.recs[i].hist[1])
          /\ (i \in DOMAIN h5.recs /\ h5.recs[i].hist # None) =>
                /\ h5'.recs[i].hist # None
                /\ Len(h5'.recs[i].hist[1]) >= Len(h5.recs[i].hist[1])
                /\ \A k \in 1..Len(h5.recs[i].hist[1]) :
                      h5.recs[i].hist[1][k] # EmptyEntry =>
                          h5'.recs[i].hist[1][k] = h5.recs[i].hist[1][k]
      ]_vars

(***************************************************************************)
(* C6: in every state a reader can observe, every record that exists has a *)
(* status_history of length >= 1: no flight group is visible with its      *)
(* group or attributes written and no history entry.                       *)
(***************************************************************************)
NoHalfWrittenRecord ==
    \A i \in DOMAIN h5.recs :
        /\ h5.recs[i].hist # None
        /\ Len(h5.recs[i].hist[1]) >= 1
        /\ h5.recs[i].hist[1][1] # EmptyEntry

(***************************************************************************)
(* C7: at no time are two threads inside a store-mutating section (the     *)
(* writer thread's queued upsert, a synchronous add_flight, or             *)
(* cleanup_old_data) together.                                             *)
(***************************************************************************)
MutationsSerialized ==
    ~(InMutatingSection("writer") /\ InMutatingSection("app"))

\* the scheduled_time values C8 speaks of: absent, 'N/A', unparseable
\* strings, bare times of day
FallbackKinds == {"absent", "empty", "na", "junk", "junkT", "bare", "badbare"}

(***************************************************************************)
(* C8: a synchronous upsert of an observation whose scheduled_time is      *)
(* absent, 'N/A', an unparseable string or a bare time-of-day returns      *)
(* True and has stored the record, with this observation's history entry,  *)
(* under the bucket of the day of the call.                                *)
(***************************************************************************)
FallbackToToday ==
    (last_call # None /\ last_call[1].op = "add"
       /\ last_call[1].fd.scheduled_time.kind \in FallbackKinds)
    => LET c == last_call[1]
           k == <<c.ft, c.day, c.fd.flight_number>>
       IN /\ c.res
          /\ \E i \in RecsWithKey(h5, k) :
                /\ HistLen(h5, i) >= 1
                /\ h5.recs[i].hist[1][HistLen(h5, i)] = Entry(c.t, c.fd.status)

\* the calendar rule get_flights follows: the bucket d is kept when it is
\* later than today - days, or equal to it at exactly midnight
InQueryWindow(d, days, t) ==
    \/ d > Day(t) - days
    \/ (d = Day(t) - days /\ t % TicksPerDay = 0)

StoredViews(f, cat, keep(_)) ==
    {FlightView(f, i) : i \in {j \in DOMAIN f.recs :
                                 f.dgs[f.recs[j].dg].cat = cat /\ keep(f.dgs[f.recs[j].dg].date)}}

(***************************************************************************)
(* C3 as stated: get_flights(category, days) returns exactly the stored    *)
(* records of the category whose date bucket d satisfies                   *)
(* today - days <= d <= today.                                             *)
(***************************************************************************)
QueryClosedWindow ==
    \A c \in 1..2, days \in 0..MaxDays :
        LET keep(d) == Day(now) - days <= d /\ d <= Day(now)
        IN get_flights(h5, Cats[c], days, now) = StoredViews(h5, Cats[c], keep)

(***************************************************************************)
(* C3 amended: get_flights(category, days) returns exactly the stored      *)
(* records of the category whose date bucket d is later than               *)
(* today - days, or equal to today - days when the call is made at exactly *)
(* midnight; there is no upper bound, records dated after today are        *)
(* returned.                                                               *)
(***************************************************************************)
QueryOpenWindow ==
    \A c \in 1..2, days \in 0..MaxDays :
        LET keep(d) == InQueryWindow(d, days, now)
        IN get_flights(h5, Cats[c], days, now) = StoredViews(h5, Cats[c], keep)

\* C3 witness: after midnight the store holds a record dated today - 1, which
\* get_flights(category, 1) leaves out, and one dated tomorrow, which it
\* returns
QueryWindowWitness ==
    /\ now % TicksPerDay # 0
    /\ \E i, j \in DOMAIN h5.recs :
        /\ KeyOf(h5, i)[1] = Cats[1] /\ KeyOf(h5, j)[1] = Cats[1]
        /\ KeyOf(h5, i)[2] = Day(now) - 1
        /\ KeyOf(h5, j)[2] = Day(now) + 1
        /\ FlightView(h5, i) \notin get_flights(h5, Cats[1], 1, now)
        /\ FlightView(h5, j) \in get_flights(h5, Cats[1], 1, now)


\* ---- helpers of the backup claims --------------------------------------------
\* a step of cleanup_old_backups
CleanupSweep == HourOfDay(bnow) = 5 /\ ~swept /\ swept'

\* the file's age, as the sweeps read it from st_mtime, exceeds its tier's
\* retention window
PastRetention(a, t) == a.type \in TierSet /\ t - a.mtime > RetentionHours(a.type)

\* the artifact's age since create_backup made it exceeds its tier's
\* retention window
PastRetentionSinceCreation(a, t) ==
    a.type \in TierSet /\ t - a.stamp > RetentionHours(a.type)

(***************************************************************************)
(* C9: cleanup_old_backups() deletes exactly the artifacts (SQLite and     *)
(* HDF5 snapshots, compressed or not) of the tiers hourly, daily, weekly   *)
(* and monthly whose age exceeds the retention window of their tier, and   *)
(* no other artifact.                                                      *)
(***************************************************************************)
CleanupDeletesExactlyExpired ==
    [][ CleanupSweep => files' = {a \in files : ~PastRetention(a, bnow)} ]_vars

(***************************************************************************)
(* C10: every artifact moves only along created -> compressed -> deleted,  *)
(* and a SQLite artifact of a retention tier is gone after the first       *)
(* cleanup sweep that runs once its age since creation exceeds its tier's  *)
(* retention window, compressed in between or not.                         *)
(***************************************************************************)
DeletedOnTimeFromCreation ==
    [][ /\ \A a \in files' :
             \/ a \in files
             \/ a.gz /\ \E b \in files : ~b.gz /\ a = Gzipped(b, bnow)
             \/ ~a.gz /\ a.stamp = bnow
        /\ CleanupSweep =>
             \A a \in files' : a.ext = "db" => ~PastRetentionSinceCreation(a, bnow)
      ]_vars

\* the artifacts the sweep s had to process at time t, by the code's own tests
DueIn(s, t) ==
    IF s.op = "compress" THEN CompressDue(s.before, t) ELSE CleanupDue(s.before, t)

\* a sweep ran in this step
SweepRan == last_sweep' # None /\ last_sweep = None

(***************************************************************************)
(* C11: within one compress_old_backups() or cleanup_old_backups() sweep,  *)
(* a failure on one artifact does not stop the sweep: every other artifact *)
(* that was due for compression or deletion is no longer in the directory  *)
(* in its old form when the sweep returns.                                 *)
(***************************************************************************)
SweepIsolatesFailures ==
    [][ SweepRan =>
          \A a \in DueIn(last_sweep'[1], bnow) \ last_sweep'[1].bad : a \notin files'
      ]_vars

(***************************************************************************)
(* C12: every artifact file that create_backup made has, as long as it is  *)
(* uncompressed, its sidecar metadata file next to it.                     *)
(***************************************************************************)
ArtifactHasSidecar ==
    \A a \in files : ~a.gz => SidecarOf(a) \in sidecars

\* ---- helpers of the compression claims ---------------------------------------
\* a fault-free compress_old_backups() ran in this step
CompressRan == SweepRan /\ last_sweep'[1].op = "compress" /\ last_sweep'[1].bad = {}

\* the uncompressed artifacts of fs older than compress_after_days at time t
OldUncompressed(fs, t) ==
    {a \in fs : ~a.gz /\ t - a.mtime > compress_after_days * HoursPerDay}

\* the .gz files of fs that carry the name of a
GzFilesOf(fs, a) ==
    {b \in fs : b.gz /\ b.type = a.type /\ b.stamp = a.stamp /\ b.ext = a.ext}

\* the sweep replaced the artifacts of old, each by one .gz file, left the
\* others as they were, and a second run right after it changes nothing
ReplacedOnce(old) ==
    /\ \A a \in old : a \notin files' /\ Cardinality(GzFilesOf(files', a)) = 1
    /\ \A a \in files \ old : a \in files'
    /\ \A b \in files' \ files : \E a \in old : b \in GzFilesOf(files', a)
    /\ CompressOutcomes(files', sidecars', bnow, {}, "open")
          = {SweepResult(files', sidecars', FALSE)}

ExportRan == last_export' # None /\ last_export = None

\* the row was last written before the day today - days_old
RowOlderThan(r, days_old) == r.last_updated < today - days_old

\* the row is in an archive file of dir
Archived(r, dir) == \E f \in dir : r \in f.flights

(***************************************************************************)
(* C14: after export_old_data(days_old) returns, every row of the live     *)
(* flights table older than now - days_old is in the archive file of that  *)
(* cutoff date and no longer in the live table; no row leaves the live     *)
(* table without being in an archive; an archive file, once written, is    *)
(* never overwritten.                                                      *)
(***************************************************************************)
ExportArchivesOldRows ==
    [][ ExportRan =>
          LET days_old == last_export'[1].days_old
          IN /\ \A r \in flights_table :
                  RowOlderThan(r, days_old) =>
                     /\ r \notin flights_table'
                     /\ \E f \in archive_dir' :
                          f.cutoff_date = today - days_old /\ r \in f.flights
             /\ \A r \in flights_table \ flights_table' : Archived(r, archive_dir')
             /\ \A f \in archive_dir : f \in archive_dir'
      ]_vars

\* ---- helpers of the cache claims ---------------------------------------------
\* the call op has just returned on process p
JustReturned(p, op) == ret[p] # None /\ ret[p][1].op = op

(***************************************************************************)
(* C15: a RedisCache constructed while the backend was unreachable exists  *)
(* with enabled false, and from then on get returns a miss (None), set     *)
(* stores nothing and returns False, delete and clear_pattern remove       *)
(* nothing (returning False and 0), whatever the key and the value.        *)
(***************************************************************************)
DisabledCacheIsInert ==
    /\ ~app["off"].cache.enabled
    /\ app["off"].server = UsedServer
    /\ JustReturned("off", "get") => ret["off"][1].value = None
    /\ JustReturned("off", "set") => ret["off"][1].value = FALSE
    /\ JustReturned("off", "delete") => ret["off"][1].value = FALSE
    /\ JustReturned("off", "clear_pattern") => ret["off"][1].value = 0

\* a get that hits on the process with the backend misses on the one
\* without, whose server holds the key
DisabledMissWitness ==
    /\ JustReturned("off", "get") /\ ret["off"][1].value = None
    /\ JustReturned("on", "get") /\ ret["on"][1].value # None
    /\ \E k \in Keys : LiveEntry(app["off"].server, k, cnow)

(***************************************************************************)
(* C16: the same read calls with the same upstream responses return the    *)
(* same flight lists (ensure_fresh_data behind GET /api/flights,           *)
(* fetch_flightradar24_data) whether the external cache is enabled or was  *)
(* disabled by a connection failure.                                       *)
(***************************************************************************)
ReadsAgree ==
    (JustReturned("on", "api_flights") \/ JustReturned("on", "fetch_flightradar24_data"))
        => ret["on"] = ret["off"]

(***************************************************************************)
(* C17: after a manual cache clear (POST /api/cache/clear) the next        *)
(* flights read returns fresh data, on either process: nothing cached      *)
(* before the clear is served.                                             *)
(***************************************************************************)
ReadAfterClearIsFresh ==
    [][ \A p \in Procs :
          /\ JustReturned(p, "api_cache_clear") /\ ret'[p] # None
                /\ ret'[p][1].op = "api_flights"
             => ret'[p][1].value = tracker_data
          /\ JustReturned(p, "api_cache_clear") /\ ret'[p] # None
                /\ ret'[p][1].op = "fetch_flightradar24_data"
             => ret'[p][1].value \in {tracker_data, <<>>}
      ]_vars

\* ---- helpers of the predictor claims -----------------------------------------
\* a call of predict returned in this step
PredictRan == prediction_count' # prediction_count

StormScenario ==
    /\ weather = Some(WeatherDict(Some(60), Some(40), Some(5), Some(Str_Thunderstorm)))
    /\ flight["Scheduled_Time"] \in {TIso(0, 7), TBare(7)}
    /\ flight["Airline"] = Some(<<"N","K">>)
    /\ flight["Origin"] = Some("ORD")
    /\ flight["inbound_delay_minutes"] = None

StormFactors ==
    <<"Heavy precipitation", "High winds", "Very low visibility", "Severe weather",
      "Morning rush hour (6-9 AM)", "higher delay rate", "Arriving from major hub">>

\* want is a subsequence of fs
RECURSIVE ContainsInOrder(_, _)
ContainsInOrder(fs, want) ==
    IF want = <<>> THEN TRUE
    ELSE IF fs = <<>> THEN FALSE
    ELSE IF Head(fs) = Head(want) THEN ContainsInOrder(Tail(fs), Tail(want))
    ELSE ContainsInOrder(Tail(fs), want)

StormResult ==
    /\ prediction[1].risk_score = 100
    /\ prediction[1].risk_level = "High"
    /\ ContainsInOrder(prediction[1].factors, StormFactors)

(***************************************************************************)
(* C19 (as stated): for the thunderstorm weather and a flight scheduled at *)
(* 07:00 on an airline with delay rate 28%, origin "ORD", no inbound-delay *)
(* data, predict returns risk_score 100, risk_level "High" and the seven   *)
(* factors in order.                                                       *)
(***************************************************************************)
StormScenarioResult ==
    (prediction # None /\ StormScenario) => StormResult

(***************************************************************************)
(* C19 (amended): the same, for a flight whose Scheduled_Time is an ISO    *)
(* 8601 timestamp with hour 7 and whose Type is "Arrival".                 *)
(***************************************************************************)
StormScenarioArrivalIsoResult ==
    (/\ prediction # None /\ StormScenario
     /\ flight["Scheduled_Time"] = TIso(0, 7)
     /\ flight["Type"] = Some("Arrival"))
        => StormResult

StormScenarioWitness ==
    /\ prediction # None /\ StormScenario
    /\ flight["Scheduled_Time"] = TIso(0, 7)
    /\ flight["Type"] = Some("Arrival")
    /\ prediction[1].factors = StormFactors

\* `not flight.get(key)`: the key is missing or holds an empty string
Missing(v, empty) == v = None \/ v[1] = empty

\* the penalties of the formula
ConfidencePenalty ==
    (IF weather = None \/ weather = Some(WeatherDict(None, None, None, None)) THEN 20 ELSE 0)
    + (IF flight["Scheduled_Time"].kind \in {"absent", "none", "empty", "na"} THEN 15 ELSE 0)
    + (IF Missing(flight["Airline"], <<>>) THEN 10 ELSE 0)
    + (IF Missing(flight["Origin"], "") /\ Missing(flight["Destination"], "") THEN 10 ELSE 0)

(***************************************************************************)
(* C20: confidence = max(30, 100 - 20*[no weather] - 15*[no scheduled      *)
(* time, or "N/A"] - 10*[no airline] - 10*[neither origin nor destination  *)
(* known]); with all four missing it is 45.                                *)
(***************************************************************************)
ConfidenceFormula ==
    prediction # None =>
        /\ prediction[1].confidence =
              IF 100 - ConfidencePenalty >= 30 THEN 100 - ConfidencePenalty ELSE 30
        /\ ConfidencePenalty = 55 => prediction[1].confidence = 45

AllMissingWitness ==
    /\ prediction # None
    /\ ConfidencePenalty = 55
    /\ flight["Scheduled_Time"] = TNA
    /\ prediction[1].confidence = 45

\* round(delay_rate / 30 * 20), to the nearest integer (2 * delay_rate / 3 is
\* never half way between two integers)
RoundedShare(delay_rate) == (2 * delay_rate * 20 + 30) \div (2 * 30)

\* the flight has no scheduled time: the score of the result is the airline
\* contribution alone
OnlyAirlineScored == prediction # None /\ flight["Scheduled_Time"] = TAbsent

(***************************************************************************)
(* C21: for every carrier of the delay-rate table the airline contribution *)
(* to risk_score is round(delay_rate / 30 * 20); for a carrier that is not *)
(* in the table it is 0.                                                   *)
(***************************************************************************)
AirlineShareIsRounded ==
    OnlyAirlineScored =>
        prediction[1].risk_score =
            IF flight["Airline"] # None /\ flight["Airline"][1] \in AirlineCodes
            THEN RoundedShare(AIRLINE_DELAY_RATES(flight["Airline"][1]))
            ELSE 0

\* the flight has no carrier and a scheduled time with a known hour: the
\* score of the result is the time-of-day contribution alone
OnlyTimeScored ==
    /\ prediction # None
    /\ flight["Airline"] = None
    /\ flight["Scheduled_Time"].kind \in {"iso", "bare"}

InRushWindow(h) == (6 <= h /\ h < 9) \/ (16 <= h /\ h < 19)
InOffPeak(h) == (0 <= h /\ h < 6) \/ (22 <= h /\ h < 24)

RushLabels == {"Morning rush hour (6-9 AM)", "Evening rush hour (4-7 PM)"}
OffPeakLabels == {"Off-peak hours (reliable)"}
Labelled(fs, labels) == \E i \in DOMAIN fs : fs[i] \in labels

(***************************************************************************)
(* C27: for every flight whose scheduled time has a known hour h, given as *)
(* a full ISO timestamp or as a bare time of day, the time-of-day          *)
(* contribution is +15 for h in [6,9) or [16,19), -5 for h in [0,6) or     *)
(* [22,24) and 0 otherwise, and the two rules never both fire.             *)
(***************************************************************************)
TimeShareByHour ==
    OnlyTimeScored =>
        LET h == flight["Scheduled_Time"].hour
            fs == prediction[1].factors
        IN /\ prediction[1].risk_score =
                 IF InRushWindow(h) THEN 15 ELSE IF InOffPeak(h) THEN -5 ELSE 0
           /\ ~(Labelled(fs, RushLabels) /\ Labelled(fs, OffPeakLabels))

\* a step in which add_flight returns True for the observation, category and
\* day for which the call before it returned True
SecondUpsert ==
    /\ last_call # None /\ last_call' # None
    /\ now' = now /\ h5' # h5
    /\ last_call[1].op = "add" /\ last_call'[1].op = "add"
    /\ last_call[1].res /\ last_call'[1].res
    /\ last_call'[1].fd = last_call[1].fd
    /\ last_call'[1].ft = last_call[1].ft
    /\ last_call'[1].day = last_call[1].day

\* the attributes apart from last_updated
StableAttrs(a) == [a EXCEPT !.last_updated = None]

(***************************************************************************)
(* C22: upserting the same observation twice with an identical status does *)
(* not append two history entries: after the second upsert the key's       *)
(* status_history is as long as after the first, and the attributes apart  *)
(* from last_updated are unchanged.                                        *)
(***************************************************************************)
UpsertIsIdempotent ==
    [][ SecondUpsert =>
          \A i \in RecsWithKey(h5, <<last_call[1].ft,
                                      ParseDate(last_call[1].fd.scheduled_time, now).day,
                                      last_call[1].fd.flight_number>>) :
              /\ i \in DOMAIN h5'.recs
                 /\ HistLen(h5', i) = HistLen(h5, i)
                 /\ StableAttrs(h5'.recs[i].attrs) = StableAttrs(h5.recs[i].attrs)
      ]_vars

\* a step in which cleanup_old_data(days) returns
PurgeRan == last_call' # None /\ last_call'[1].op = "purge" /\ now' = now

\* the store f without the date-groupings gone, everything else as it was
WithoutGroupings(f, gone) ==
    [dgs |-> [i \in DOMAIN f.dgs \ gone |-> f.dgs[i]],
     recs |-> [i \in {j \in DOMAIN f.recs : f.recs[j].dg \notin gone} |-> f.recs[i]],
     nextId |-> f.nextId]

\* the date-groupings, of both categories, whose calendar date is earlier
\* than today - days
EarlierDays(f, days, t) == {i \in DOMAIN f.dgs : f.dgs[i].date < Day(t) - days}

\* the date-groupings whose date, taken at midnight, precedes the instant
\* now - days: those of EarlierDays, and the day today - days itself once
\* midnight has passed
BeforeCutoffInstant(f, days, t) ==
    {i \in DOMAIN f.dgs :
        \/ f.dgs[i].date < Day(t) - days
        \/ (f.dgs[i].date = Day(t) - days /\ t % TicksPerDay # 0)}

(***************************************************************************)
(* C23 (as stated): cleanup_old_data(days) removes exactly the             *)
(* date-groupings, in both categories, whose calendar date is earlier than *)
(* today - days, leaves every other date-grouping with its records and     *)
(* histories unchanged, and returns the number of groupings it removed.    *)
(***************************************************************************)
PurgeRemovesEarlierDays ==
    [][ PurgeRan =>
          LET gone == EarlierDays(h5, last_call'[1].days, now)
          IN /\ h5' = WithoutGroupings(h5, gone)
             /\ last_call'[1].n = Cardinality(gone)
      ]_vars

(***************************************************************************)
(* C23 (amended): cleanup_old_data(days) removes exactly the               *)
(* date-groupings, in both categories, whose date at midnight precedes the *)
(* instant now - days (the dates earlier than today - days, and the date   *)
(* today - days itself unless the call is made at exactly midnight),       *)
(* leaves every other date-grouping with its records and histories         *)
(* unchanged, and returns the number of groupings it removed.              *)
(***************************************************************************)
PurgeRemovesBeforeCutoff ==
    [][ PurgeRan =>
          LET gone == BeforeCutoffInstant(h5, last_call'[1].days, now)
          IN /\ h5' = WithoutGroupings(h5, gone)
             /\ last_call'[1].n = Cardinality(gone)
      ]_vars

\* a purge made after midnight with days >= 1 has removed a grouping and left
\* a record
PurgeRemovedAndKeptWitness ==
    /\ last_call # None /\ last_call[1].op = "purge"
    /\ last_call[1].days >= 1 /\ last_call[1].n >= 1
    /\ last_call[1].t = now /\ now % TicksPerDay # 0
    /\ DOMAIN h5.recs # {}

\* the store after cleanup_old_data(days) run at time t on the store f
Purged(f, days, t) == RunPurge(f, StartPurge(days), t).f

\* the dicts of all records of the store
AllViews(f) == {FlightView(f, i) : i \in DOMAIN f.recs}

(***************************************************************************)
(* C29: purge and query agree on what is too old: at the same instant and  *)
(* with the same day count d, cleanup_old_data(d) removes a date-grouping  *)
(* exactly when get_flights(category, d) skips it as older than the        *)
(* cutoff, so the purge never removes a record that the query with the     *)
(* same d would have returned.                                             *)
(***************************************************************************)
PurgeAgreesWithQuery ==
    \A d \in 0..MaxDays :
        LET after == Purged(h5, d, now)
        IN /\ \A i \in DOMAIN h5.dgs :
                 (i \notin DOMAIN after.dgs) <=> ~QueryKeeps(h5.dgs[i].date, d, now)
           /\ \A c \in 1..2 :
                 /\ get_flights(h5, Cats[c], d, now) \subseteq AllViews(after)
                 /\ get_flights(after, Cats[c], d, now) = get_flights(h5, Cats[c], d, now)

\* after midnight the store holds a record dated today - 1, which both the
\* purge and the query with d = 1 drop, and a record dated today, which both
\* keep
PurgeQueryBoundaryWitness ==
    /\ now % TicksPerDay # 0
    /\ \E i, j \in DOMAIN h5.recs :
        /\ KeyOf(h5, i)[1] = Cats[1] /\ KeyOf(h5, j)[1] = Cats[1]
        /\ KeyOf(h5, i)[2] = Day(now) - 1
        /\ KeyOf(h5, j)[2] = Day(now)
        /\ i \notin DOMAIN Purged(h5, 1, now).recs
        /\ FlightView(h5, i) \notin get_flights(h5, Cats[1], 1, now)
        /\ j \in DOMAIN Purged(h5, 1, now).recs
        /\ FlightView(h5, j) \in get_flights(h5, Cats[1], 1, now)

\* the artifacts whose type is none of the four retention tiers
Untiered(fs) == {a \in fs : a.type \notin TierSet}

\* a step in which cleanup_old_backups() returns
CleanupRan == SweepRan /\ last_sweep'[1].op = "cleanup"

(***************************************************************************)
(* C30: cleanup_old_backups() never deletes an artifact whose type is      *)
(* outside the four retention tiers: artifacts of type manual or startup   *)
(* are left unchanged by every sweep, whatever their age, and their number *)
(* never decreases.                                                        *)
(***************************************************************************)
UntieredArtifactsKept ==
    [][ /\ CleanupRan => Untiered(files) \subseteq files'
        /\ Cardinality(Untiered(files')) >= Cardinality(Untiered(files))
      ]_vars

\* the cleanup sweep has run over a directory with a startup or manual .db
\* artifact older than every retention window, and has removed an old weekly
\* one
OldUntieredKeptWitness ==
    /\ last_sweep # None /\ last_sweep[1].op = "cleanup"
    /\ \E a \in files :
          /\ a.type \in {"startup", "manual"} /\ a.ext = "db"
          /\ bnow - a.mtime > RetentionHours("monthly")
    /\ \E b \in last_sweep[1].before : b.type = "weekly" /\ b \notin files

(***************************************************************************)
(* C24: no public operation of the Store, the Cache, the Scorer or the     *)
(* Backup Manager lets an exception escape for an expected failure         *)
(* (backend unreachable, missing file, missing or malformed field in a     *)
(* flight or weather record); each returns its sentinel result instead.    *)
(***************************************************************************)
NoExceptionEscapes ==
    outcome # None => ~outcome[1].raised

(***************************************************************************)
(* C25: after close() returns on a FlightHDF5Storage, every write that was *)
(* queued before the call has been applied to the store and the background *)
(* writer thread has stopped.                                              *)
(***************************************************************************)
CloseFlushesAndStops ==
    (calls # <<>> /\ calls[Len(calls)].op = "close")
        => calls[Len(calls)].n = 0 /\ WriterStopped

\* ---- C26 --------------------------------------------------------------------
\* the statuses of the tasks queued by add_flight(async_write=True), in the
\* order of the calls
QueuedStatuses ==
    LET sel == SelectSeq(calls, LAMBDA c : c.op = "add" /\ c.async)
    IN [i \in 1..Len(sel) |-> sel[i].fd.status]

\* the statuses written to the status histories of the file, record after
\* record in the order the records were created
RECURSIVE WrittenFrom(_, _)
WrittenFrom(f, i) ==
    IF i >= f.nextId THEN <<>>
    ELSE (IF i \in DOMAIN f.recs /\ f.recs[i].hist # None
          THEN LET h == SelectSeq(f.recs[i].hist[1], LAMBDA e : e # EmptyEntry)
               IN [j \in 1..Len(h) |-> h[j].status]
          ELSE <<>>) \o WrittenFrom(f, i + 1)
WrittenStatuses == WrittenFrom(h5, 1)

\* the task the writer thread has passed to _write_flight_sync and not yet
\* marked done, and the tasks still on the queue
InFlight == IF th["writer"].pc \in WritePcs THEN <<th["writer"].fd.status>> ELSE <<>>
Pending == [i \in 1..Len(write_queue) |-> write_queue[i].fd.status]

FlushReturns == th["app"].pc = "f_join" /\ th'["app"].pc = "idle"

(***************************************************************************)
(* C26: under fair scheduling of the writer thread, every task put on the  *)
(* write queue by add_flight(async_write=True) is eventually taken off and *)
(* passed to _write_flight_sync exactly once, in the order it was queued,  *)
(* and is then marked done; flush_queue() eventually returns, and returns  *)
(* only when no queued write is pending.                                   *)
(***************************************************************************)
QueueIsDrainedInOrder ==
    /\ [](QueuedStatuses = WrittenStatuses \o InFlight \o Pending)
    /\ [](unfinished_tasks = Len(InFlight) + Len(Pending))
    /\ \A k \in 1..MaxCalls :
          (Len(QueuedStatuses) >= k)
              ~> (Len(WrittenStatuses) >= k /\ unfinished_tasks <= Len(QueuedStatuses) - k)
    /\ (th["app"].pc = "f_join") ~> (th["app"].pc = "idle")
    /\ [][FlushReturns => (write_queue = <<>> /\ InFlight = <<>>
                            /\ WrittenStatuses = QueuedStatuses)]_vars

\* two tasks were queued, flush_queue() was called and has returned, and the
\* file holds both statuses in the order of the calls
FlushedTwoWitness ==
    /\ Len(QueuedStatuses) >= 2
    /\ calls[Len(calls)].op = "flush"
    /\ WrittenStatuses = QueuedStatuses

\* ---- C28 --------------------------------------------------------------------
SaveReturned == outcome # None /\ outcome[1].component = "History"

\* the flights of the last save call that the table can hold
Savable == {i \in 1..Len(outcome[1].flights) : outcome[1].flights[i].Flight_Number # None}

\* the last flight of the call with the key of flight i
LastWithKey(i) ==
    LET fs == outcome[1].flights
        same == {j \in Savable : HistoryKey(fs[j]) = HistoryKey(fs[i])}
    IN fs[CHOOSE j \in same : \A k \in same : k <= j]

(***************************************************************************)
(* C28: save_flight saves or updates: after save_flight(f) there is        *)
(* exactly one row for the key (flight_number, scheduled_time,             *)
(* flight_type) of f; the first save inserts it, and a later save with the *)
(* same key updates status, actual_time, altitude, ground_speed and        *)
(* last_updated of that row without adding a row.  save_flights_batch does *)
(* this for every flight of the batch, and a flight that cannot be saved   *)
(* does not prevent the others from being saved.                           *)
(***************************************************************************)
SaveInsertsOrUpdates ==
    SaveReturned =>
        \A i \in Savable :
            LET f == LastWithKey(i)
                now_ == RowsOf(flights_table, HistoryKey(f))
                was == RowsOf(outcome[1].before, HistoryKey(f))
            IN /\ Cardinality(now_) = 1
               /\ \A r \in now_ :
                     /\ r.status = f.Status /\ r.actual_time = f.Actual_Time
                     /\ r.altitude = f.altitude /\ r.ground_speed = f.ground_speed
                     /\ \A o \in was : r.id = o.id /\ r.first_seen = o.first_seen
=============================================================================
